---- MODULE Spec2Model ----
(***************************************************************************)
(* Model of the local meeting archive of elaara: the IndexedDB wrapper     *)
(* (src/lib/db.ts), the Date <-> ISO-string serialization it performs,     *)
(* the cost ledger (src/lib/costs.ts) and the ZIP export/import engine     *)
(* (src/unnamed/part_001).                                                 *)
(*                                                                         *)
(* Conventions                                                             *)
(*  - A JavaScript Date is its time value.  TLC integers are 32 bits wide, *)
(*    so the time value is kept as two limbs: whole days since the epoch   *)
(*    and milliseconds within the day.                                     *)
(*  - An ISO string "YYYY-MM-DDTHH:mm:ss.sssZ" is the record of its fields.*)
(*  - An optional value (summary?: Summary, a file of a ZIP) is a sequence *)
(*    of length 0 (undefined / not in the ZIP) or 1.                       *)
(*  - Blob | null is a record with a null flag and the bytes.              *)
(*  - An object store is a function from the keys present to the records.  *)
(*  - A number that takes part in floating-point arithmetic (a cost) is a  *)
(*    binary64 value: a mantissa, as its bits, and a power of two.         *)
(*  - A string whose characters the code inspects (a search text, a title  *)
(*    turned into a folder name) is the sequence of its characters.        *)
(*                                                                         *)
(* Specifications                                                          *)
(*  - Spec:        the repository, the single export and import, the costs *)
(*  - SpecAdapter: the serialization adapter as a pure function            *)
(*  - SpecLedger:  logCost and its caller against a store that can fail    *)
(*  - SpecSearch:  searchMeetings as a function of store and query         *)
(*  - SpecBulk:    bulk export and bulk import                             *)
(*  - SpecSummary: updateMeeting replacing stored summaries                *)
(*  - SpecAsync:   calls of db.ts overlapping, one step for each await     *)
(*  - SpecRecorder: the AudioRecorder and its clock                        *)
(***************************************************************************)
EXTENDS Integers, Sequences, FiniteSets, TLC

\* ---------------------------------------------------------------- bounds
\* Meeting ids are 1..MaxIds (stand-ins for UUID strings).
MaxIds == 2
\* Writes to the store take one clock tick each; the clock stops at MaxClock.
MaxClock == 3
\* Day number (days since 1970-01-01) of clock tick 0: 2025-11-05.
ClockStartDay == 20397

\* Asynchronous calls that can be in flight together are 1..MaxCallers.
MaxCallers == 2
\* The recorder is watched for MaxTime timer ticks.
MaxTime == 6

VARIABLES
    meetings,    \* object store 'meetings': id -> MeetingDB
    costs,       \* object store 'costs': month -> CostTrackingDB
    now,         \* clock ticks elapsed; new Date() reads ClockDate(now)
    last,        \* the last call: operation, arguments, outcome
    pre,         \* both object stores as they were when the last call began
    dbInstance,  \* the module-level connection of db.ts: 0 is null
    connections, \* how many connections openDB has been asked for
    upgrades,    \* how many times the upgrade callback has created the schema
    calls,       \* the asynchronous calls: each one's arguments, position, locals
    recorder     \* the fields of the AudioRecorder

vars == <<meetings, costs, now, last, pre, dbInstance, connections, upgrades, calls, recorder>>

\* What a call that runs from start to end on its own leaves alone: the
\* calls in flight, the connection they share, and the recorder
elsewhere == <<dbInstance, connections, upgrades, calls, recorder>>

Callers == 1 .. MaxCallers

\* A call that has not been made.  existing is the local variable of that
\* name, db the connection initDB returned, at the time the call ended.
NoCall ==
    [op |-> "", id |-> 0, arg |-> << >>, pc |-> "idle", db |-> 0,
     existing |-> << >>, err |-> "", at |-> 0]

\* new AudioRecorder(): the field initializers.  state is the state of
\* mediaRecorder ("none" while the field is null), stream whether the stream
\* is set; recorded is not a field of the class: it keeps the milliseconds
\* spent recording since the latest start.
NewAudioRecorder ==
    [stream |-> FALSE, state |-> "none", startTime |-> 0, pausedDuration |-> 0,
     pausedAt |-> 0, recorded |-> 0]

\* The module as loaded, before any call: no connection, no call in flight
Loaded ==
    /\ dbInstance = 0
    /\ connections = 0
    /\ upgrades = 0
    /\ calls = [c \in Callers |-> NoCall]
    /\ recorder = NewAudioRecorder

\* ------------------------------------------------- Date and ISO strings
MsPerDay == 24 * 60 * 60 * 1000

MkDate(day, ms) == [day |-> day, ms |-> ms]

\* Date.prototype.toISOString: civil date of the day number, and the
\* fields of the time within the day.
toISOString(d) ==
    LET z    == d.day + 719468
        era  == z \div 146097
        doe  == z - era * 146097
        yoe  == (doe - doe \div 1460 + doe \div 36524 - doe \div 146096) \div 365
        doy  == doe - (365 * yoe + yoe \div 4 - yoe \div 100)
        mp   == (5 * doy + 2) \div 153
        dd   == doy - (153 * mp + 2) \div 5 + 1
        mm   == IF mp < 10 THEN mp + 3 ELSE mp - 9
        yy   == yoe + era * 400 + (IF mm <= 2 THEN 1 ELSE 0)
    IN  [Y   |-> yy, Mo |-> mm, D |-> dd,
         h   |-> d.ms \div 3600000,
         mi  |-> (d.ms \div 60000) % 60,
         s   |-> (d.ms \div 1000) % 60,
         sss |-> d.ms % 1000]

\* new Date(isoString): the time value of the fields of the string.
parseISO(iso) ==
    LET y   == iso.Y - (IF iso.Mo <= 2 THEN 1 ELSE 0)
        era == y \div 400
        yoe == y - era * 400
        doy == (153 * (iso.Mo + (IF iso.Mo > 2 THEN -3 ELSE 9)) + 2) \div 5 + iso.D - 1
        doe == yoe * 365 + yoe \div 4 - yoe \div 100 + doy
    IN  MkDate(era * 146097 + doe - 719468,
               ((iso.h * 60 + iso.mi) * 60 + iso.s) * 1000 + iso.sss)

\* new Date(): the current time at clock tick t.
ClockDate(t) == MkDate(ClockStartDay + t, 1001 * t)

\* ------------------------------------------------------------ sample data
EmptyBlob == [null |-> FALSE, bytes |-> << >>]     \* new Blob()
NullBlob  == [null |-> TRUE,  bytes |-> << >>]     \* null
MkBlob(b) == [null |-> FALSE, bytes |-> b]
BlobSize(b) == Len(b.bytes)

\* 2000-02-29T23:59:59.999Z, 2025-01-01T00:00:00.000Z, 2025-02-01T00:00:00.001Z
SampleDates == <<MkDate(11016, MsPerDay - 1), MkDate(20089, 0), MkDate(20120, 1)>>

SampleSummary(k) ==
    [executive   |-> IF k = 1 THEN "Team agreed on the plan" ELSE "Budget review",
     keyPoints   |-> IF k = 1 THEN <<"Ship Friday">> ELSE <<"Cut costs", "Hire">>,
     actionItems |-> IF k = 1 THEN <<[task |-> "deploy", owner |-> "ana"]>>
                               ELSE <<[task |-> "report", owner |-> "bo", priority |-> "high"]>>,
     decisions   |-> IF k = 1 THEN <<"go">> ELSE << >>,
     questions   |-> IF k = 1 THEN << >> ELSE <<"when?">>,
     category    |-> IF k = 1 THEN "planning" ELSE "finance",
     tags        |-> IF k = 1 THEN <<"plan">> ELSE <<"budget">>,
     generatedAt |-> SampleDates[k + 1],
     model       |-> IF k = 1 THEN "haiku" ELSE "sonnet"]

\* Content bundle k (1 or 2) as a Meeting with the given id, flag and audio.
\* The two bundles differ in every field.
SampleMeeting(k, id, archived, blob) ==
    [id         |-> id,
     title      |-> IF k = 1 THEN "Standup" ELSE "Planning",
     date       |-> SampleDates[k],
     duration   |-> IF k = 1 THEN 600 ELSE 300,
     audioBlob  |-> blob,
     transcript |-> IF k = 1 THEN "hello team" ELSE "Roadmap for Q3",
     summary    |-> IF k = 1 THEN << >> ELSE <<SampleSummary(1)>>,
     speakers   |-> IF k = 1
                    THEN <<[id |-> "speaker-1", name |-> "Speaker 1", color |-> "#3B82F6"]>>
                    ELSE <<[id |-> "speaker-1", name |-> "Ana", color |-> "#3B82F6"],
                           [id |-> "speaker-2", name |-> "Bo", color |-> "#10B981"]>>,
     tags       |-> IF k = 1 THEN << >> ELSE <<"q3", "roadmap">>,
     category   |-> IF k = 1 THEN "other" ELSE "planning",
     archived   |-> archived,
     createdAt  |-> SampleDates[k],
     updatedAt  |-> SampleDates[k + 1]]

\* -------------------------------------------------- serialization adapter
summaryToDB(summary) ==
    [summary EXCEPT !.generatedAt = toISOString(summary.generatedAt)]

dbToSummary(db) ==
    [db EXCEPT !.generatedAt = parseISO(db.generatedAt)]

\* meetingToDB without the purge of an archived meeting's audio
meetingToDBKeepsAudio(meeting) ==
    [meeting EXCEPT
        !.date      = toISOString(meeting.date),
        !.createdAt = toISOString(meeting.createdAt),
        !.updatedAt = toISOString(meeting.updatedAt),
        !.summary   = IF meeting.summary # << >>
                      THEN <<summaryToDB(meeting.summary[1])>> ELSE << >>]

meetingToDB(meeting) ==
    [meeting EXCEPT
        !.date      = toISOString(meeting.date),
        !.createdAt = toISOString(meeting.createdAt),
        !.updatedAt = toISOString(meeting.updatedAt),
        !.audioBlob = IF meeting.archived THEN NullBlob ELSE meeting.audioBlob,
        !.summary   = IF meeting.summary # << >>
                      THEN <<summaryToDB(meeting.summary[1])>> ELSE << >>]

\* dbToMeeting reading updatedAt from the createdAt column
dbToMeetingSwapsDates(db) ==
    [db EXCEPT
        !.date      = parseISO(db.date),
        !.createdAt = parseISO(db.createdAt),
        !.updatedAt = parseISO(db.createdAt),
        !.audioBlob = IF db.audioBlob.null THEN EmptyBlob ELSE db.audioBlob,
        !.summary   = IF db.summary # << >>
                      THEN <<dbToSummary(db.summary[1])>> ELSE << >>]

dbToMeeting(db) ==
    [db EXCEPT
        !.date      = parseISO(db.date),
        !.createdAt = parseISO(db.createdAt),
        !.updatedAt = parseISO(db.updatedAt),
        !.audioBlob = IF db.audioBlob.null THEN EmptyBlob ELSE db.audioBlob,
        !.summary   = IF db.summary # << >>
                      THEN <<dbToSummary(db.summary[1])>> ELSE << >>]

costTrackingToDB(cost) ==
    [cost EXCEPT !.lastUpdated = toISOString(cost.lastUpdated)]

dbToCostTracking(db) ==
    [db EXCEPT !.lastUpdated = parseISO(db.lastUpdated)]

\* --------------------------------------------------------- object stores
EmptyStore == [k \in {} |-> 0]

\* IDBObjectStore.put: insert or overwrite the record under its key
Put(store, key, rec) ==
    [k \in DOMAIN store \cup {key} |-> IF k = key THEN rec ELSE store[k]]

\* IDBObjectStore.delete: remove the key if present
Remove(store, key) == [k \in DOMAIN store \ {key} |-> store[k]]

Ids == 1 .. MaxIds

Stores == [meetings |-> meetings, costs |-> costs]

\* The record of a call: what was called with what, and how it ended.
\* arg and ret wrap the argument and the returned value; err is "" on success.
Call(op, id, arg, policy, err, ret) ==
    [op |-> op, id |-> id, arg |-> arg, policy |-> policy,
     ok |-> (err = ""), err |-> err, ret |-> ret]

\* getMeeting(id) against a 'meetings' store: <<meeting>> or << >>
getMeeting(store, id) ==
    IF id \in DOMAIN store THEN <<dbToMeeting(store[id])>> ELSE << >>

\* ------------------------------------------------------ meeting repository
\* saveMeeting with IDBObjectStore.add in place of put: a stored id is kept
saveMeetingInsertOnly(meeting) ==
    /\ now < MaxClock
    /\ meetings' = IF meeting.id \in DOMAIN meetings THEN meetings
                   ELSE Put(meetings, meeting.id, meetingToDB(meeting))
    /\ costs' = costs
    /\ now' = now + 1
    /\ last' = Call("save", meeting.id, <<meeting>>, "", "", << >>)
    /\ pre' = Stores
    /\ UNCHANGED elsewhere

saveMeeting(meeting) ==
    /\ now < MaxClock
    /\ meetings' = Put(meetings, meeting.id, meetingToDB(meeting))
    /\ costs' = costs
    /\ now' = now + 1
    /\ last' = Call("save", meeting.id, <<meeting>>, "", "", << >>)
    /\ pre' = Stores
    /\ UNCHANGED elsewhere

\* updatesDB of updateMeeting: the fields it copies, converted for storage
UpdatableFields ==
    {"title", "transcript", "speakers", "tags", "category", "archived",
     "duration", "audioBlob", "date", "summary"}

updatesDB(updates) ==
    [f \in DOMAIN updates \cap UpdatableFields |->
        IF f = "date" THEN toISOString(updates.date)
        ELSE IF f = "summary" THEN <<summaryToDB(updates.summary[1])>>
        ELSE updates[f]]

\* the merge stamping createdAt along with updatedAt
updatedStampsCreatedAt(existing, updates, t) ==
    [f \in DOMAIN existing \cup DOMAIN updatesDB(updates) |->
        IF f \in {"updatedAt", "createdAt"} THEN toISOString(ClockDate(t))
        ELSE IF f \in DOMAIN updatesDB(updates) THEN updatesDB(updates)[f]
        ELSE existing[f]]

\* { ...existing, ...updatesDB, updatedAt: new Date().toISOString() }
updated(existing, updates, t) ==
    [f \in DOMAIN existing \cup DOMAIN updatesDB(updates) |->
        IF f = "updatedAt" THEN toISOString(ClockDate(t))
        ELSE IF f \in DOMAIN updatesDB(updates) THEN updatesDB(updates)[f]
        ELSE existing[f]]

\* updateMeeting without the existence check: the merge starts from { id }
updateMeetingAsUpsert(op, id, updates) ==
    /\ now < MaxClock
    /\ meetings' = Put(meetings, id,
                       updated(IF id \in DOMAIN meetings THEN meetings[id] ELSE [id |-> id],
                               updates, now))
    /\ costs' = costs
    /\ now' = now + 1
    /\ last' = Call(op, id, <<updates>>, "", "", << >>)
    /\ pre' = Stores
    /\ UNCHANGED elsewhere

\* updateMeeting, recorded under the name of the operation that called it
updateMeetingAs(op, id, updates) ==
    IF id \notin DOMAIN meetings
    THEN /\ UNCHANGED <<meetings, costs, now>>
         /\ last' = Call(op, id, <<updates>>, "", "NotFound", << >>)
         /\ pre' = Stores
         /\ UNCHANGED elsewhere
    ELSE /\ now < MaxClock
         /\ meetings' = Put(meetings, updated(meetings[id], updates, now).id,
                            updated(meetings[id], updates, now))
         /\ costs' = costs
         /\ now' = now + 1
         /\ last' = Call(op, id, <<updates>>, "", "", << >>)
         /\ pre' = Stores
         /\ UNCHANGED elsewhere

\* updateMeeting spreading a new summary over the stored one, field by field
updateMeetingMergingSummary(id, updates) ==
    IF id \notin DOMAIN meetings
    THEN /\ UNCHANGED <<meetings, costs, now>>
         /\ last' = Call("update", id, <<updates>>, "", "NotFound", << >>)
         /\ pre' = Stores
         /\ UNCHANGED elsewhere
    ELSE LET old    == meetings[id].summary
             new    == updatesDB(updates).summary[1]
             merged == [f \in DOMAIN old[1] \cup DOMAIN new |->
                           IF f \in DOMAIN new THEN new[f] ELSE old[1][f]]
             record == updated(meetings[id], updates, now)
         IN  /\ now < MaxClock
             /\ meetings' = Put(meetings, id,
                               IF "summary" \in DOMAIN updates /\ old # << >>
                               THEN [record EXCEPT !.summary = <<merged>>]
                               ELSE record)
             /\ costs' = costs
             /\ now' = now + 1
             /\ last' = Call("update", id, <<updates>>, "", "", << >>)
             /\ pre' = Stores
             /\ UNCHANGED elsewhere

updateMeeting(id, updates) == updateMeetingAs("update", id, updates)

\* archiveMeeting setting the flag only
ArchiveUpdatesFlagOnly == [archived |-> TRUE]

\* The updates archiveMeeting passes to updateMeeting
ArchiveUpdates == [archived |-> TRUE, audioBlob |-> EmptyBlob]

archiveMeeting(id) == updateMeetingAs("archive", id, ArchiveUpdates)

\* deleteMeeting rejecting an id that is not stored
deleteMeetingStrict(id) ==
    IF id \notin DOMAIN meetings
    THEN /\ UNCHANGED <<meetings, costs, now>>
         /\ last' = Call("delete", id, << >>, "", "NotFound", << >>)
         /\ pre' = Stores
         /\ UNCHANGED elsewhere
    ELSE /\ now < MaxClock
         /\ meetings' = Remove(meetings, id)
         /\ costs' = costs
         /\ now' = now + 1
         /\ last' = Call("delete", id, << >>, "", "", << >>)
         /\ pre' = Stores
         /\ UNCHANGED elsewhere

deleteMeeting(id) ==
    /\ now < MaxClock
    /\ meetings' = Remove(meetings, id)
    /\ costs' = costs
    /\ now' = now + 1
    /\ last' = Call("delete", id, << >>, "", "", << >>)
    /\ pre' = Stores
    /\ UNCHANGED elsewhere

clearAllData ==
    /\ now < MaxClock
    /\ meetings' = EmptyStore
    /\ costs' = EmptyStore
    /\ now' = now + 1
    /\ last' = Call("clearAll", 0, << >>, "", "", << >>)
    /\ pre' = Stores
    /\ UNCHANGED elsewhere

\* ------------------------------------------------------------------ numbers
\* A JavaScript number (IEEE 754 binary64) of the kind the cost store holds:
\* finite, not negative, far from overflow and from the subnormal range.  Its
\* value is m * 2^e, with m given by its bits, least significant first: at
\* most 53 bits, the lowest one set.  Zero is the empty mantissa.
Zero == [e |-> 0, m |-> << >>]

\* bit i of a bit string, 0 beyond its end
bit(m, i) == IF i <= Len(m) THEN m[i] ELSE 0

\* the value of the ten bits of m from position k on
chunk(m, k) ==
    bit(m, k) + 2 * bit(m, k + 1) + 4 * bit(m, k + 2) + 8 * bit(m, k + 3)
    + 16 * bit(m, k + 4) + 32 * bit(m, k + 5) + 64 * bit(m, k + 6)
    + 128 * bit(m, k + 7) + 256 * bit(m, k + 8) + 512 * bit(m, k + 9)

\* the low w bits of a natural number
bitsOf(n, w) == [i \in 1 .. w |-> (n \div 2 ^ (i - 1)) % 2]

\* the sum of two bit strings and a carry, ten bits at a time from position k
RECURSIVE addBits(_, _, _, _)
addBits(a, b, c, k) ==
    IF k > Len(a) /\ k > Len(b) THEN <<c>>
    ELSE bitsOf((chunk(a, k) + chunk(b, k) + c) % 1024, 10) \o
         addBits(a, b, (chunk(a, k) + chunk(b, k) + c) \div 1024, k + 10)

\* index of the highest set bit of m, 0 if none
topBit(m) ==
    IF \A i \in 1 .. Len(m) : m[i] = 0 THEN 0
    ELSE CHOOSE i \in 1 .. Len(m) : m[i] = 1 /\ \A j \in i + 1 .. Len(m) : m[j] = 0

\* m * 2^e in the form above: without its low and high zero bits
normal(m, e) ==
    IF topBit(m) = 0 THEN Zero
    ELSE LET low == CHOOSE i \in 1 .. Len(m) : m[i] = 1 /\ \A j \in 1 .. i - 1 : m[j] = 0
         IN  [e |-> e + low - 1, m |-> SubSeq(m, low, topBit(m))]

\* The binary64 nearest to m * 2^e, or to a value just above it when sticky
\* (the discarded rest is not zero): 53 significant bits are kept, a tie goes
\* to the even mantissa.
round53(m, e, sticky) ==
    LET n    == topBit(m)
        d    == n - 53
        kept == SubSeq(m, d + 1, n)
        up   == /\ m[d] = 1
                /\ (sticky \/ kept[1] = 1 \/ \E i \in 1 .. d - 1 : m[i] = 1)
    IN  IF n <= 53 THEN normal(m, e)
        ELSE normal(IF up THEN addBits(kept, <<1>>, 0, 1) ELSE kept, e + d)

\* x + y of two numbers
FAdd(x, y) ==
    IF x = Zero THEN y
    ELSE IF y = Zero THEN x
    ELSE LET e == IF x.e < y.e THEN x.e ELSE y.e
         IN  round53(addBits([i \in 1 .. x.e - e |-> 0] \o x.m,
                             [i \in 1 .. y.e - e |-> 0] \o y.m, 0, 1), e, FALSE)

\* 2^i mod d for i <= 66 and d <= 1000
pow2mod(i, d) ==
    LET a == IF i < 22 THEN i ELSE 22
        b == IF i - a < 22 THEN i - a ELSE 22
        c == i - a - b
    IN  (((((2 ^ a) % d) * ((2 ^ b) % d)) % d) * ((2 ^ c) % d)) % d

\* The number a decimal literal denotes: the binary64 nearest to n / d, for
\* n < 2^20, d <= 1000 and n / d >= 1/1000.  The quotient of n * 2^64 by d is
\* taken by long division: the remainder before its i-th bit below the point
\* is n * 2^(i-1) mod d.  It has 54 bits or more, so the rounding sees the bit
\* below the 53rd and whether anything is left.
decimal(n, d) ==
    IF n = 0 THEN Zero
    ELSE LET rem(i) == ((n % d) * pow2mod(i, d)) % d
         IN  round53([k \in 1 .. 64 |-> (2 * rem(64 - k)) \div d] \o bitsOf(n \div d, 20),
                     -64, rem(64) # 0)

\* An amount of whole cents as the number the literal writes: 10 is 0.10
Dollars(cents) == decimal(cents, 100)

\* The amounts logged in the model: $0.10 for a transcription, $0.20 for a
\* summary
TranscriptionAmount == Dollars(10)
SummaryAmount == Dollars(20)

\* --------------------------------------------------------------- cost store
costRecord(existing, month, transcriptionCost, summarizationCost, t) ==
    IF existing # << >>
    THEN [existing[1] EXCEPT
            !.transcriptionCost = FAdd(existing[1].transcriptionCost, transcriptionCost),
            !.summarizationCost = FAdd(existing[1].summarizationCost, summarizationCost),
            !.meetingCount = existing[1].meetingCount + 1,
            !.totalCost = FAdd(FAdd(FAdd(existing[1].transcriptionCost,
                                         existing[1].summarizationCost),
                                    transcriptionCost), summarizationCost),
            !.lastUpdated = toISOString(ClockDate(t))]
    ELSE [month |-> month,
          transcriptionCost |-> transcriptionCost,
          summarizationCost |-> summarizationCost,
          meetingCount |-> 1,
          totalCost |-> FAdd(transcriptionCost, summarizationCost),
          lastUpdated |-> toISOString(ClockDate(t))]

updateCostTracking(month, transcriptionCost, summarizationCost) ==
    /\ now < MaxClock
    /\ costs' = Put(costs, month,
                    costRecord(IF month \in DOMAIN costs THEN <<costs[month]>> ELSE << >>,
                               month, transcriptionCost, summarizationCost, now))
    /\ meetings' = meetings
    /\ now' = now + 1
    /\ last' = Call("cost", 0, <<month, transcriptionCost, summarizationCost>>, "", "", << >>)
    /\ pre' = Stores
    /\ UNCHANGED elsewhere

\* `${now.getFullYear()}-${month}` of logCost: the YYYY-MM of the clock date
\* (the time zone offset of getFullYear / getMonth is taken to be zero)
MonthKey(t) == <<toISOString(ClockDate(t)).Y, toISOString(ClockDate(t)).Mo>>

\* ------------------------------------------------------------ export/import
\* The ExportedMeeting written to metadata.json
exportedMeeting(meeting) ==
    [metadata |-> [id        |-> meeting.id,
                   title     |-> meeting.title,
                   date      |-> toISOString(meeting.date),
                   duration  |-> meeting.duration,
                   speakers  |-> meeting.speakers,
                   tags      |-> meeting.tags,
                   category  |-> meeting.category,
                   archived  |-> meeting.archived,
                   createdAt |-> toISOString(meeting.createdAt),
                   updatedAt |-> toISOString(meeting.updatedAt)],
     transcript |-> meeting.transcript,
     summary    |-> IF meeting.summary # << >>
                    THEN <<[meeting.summary[1] EXCEPT
                              !.generatedAt = toISOString(meeting.summary[1].generatedAt)]>>
                    ELSE << >>,
     hasAudio   |-> ~meeting.archived /\ BlobSize(meeting.audioBlob) > 0]

\* The ZIP of one meeting.  audio is the file audio.webm (its bytes), texts the
\* names of the text files added, metadataJson the file metadata.json: the
\* document JSON.stringify wrote, which JSON.parse reads back.
zipOf(meeting) ==
    [audio |-> IF ~meeting.archived /\ BlobSize(meeting.audioBlob) > 0
               THEN <<meeting.audioBlob>> ELSE << >>,
     texts |-> {"transcript.txt"} \cup
               (IF meeting.summary # << >> THEN {"summary.md"} ELSE {}),
     metadataJson |-> <<[malformed |-> FALSE, value |-> exportedMeeting(meeting)]>>]

exportMeeting(meetingId) ==
    /\ UNCHANGED <<meetings, costs, now>>
    /\ pre' = Stores
    /\ UNCHANGED elsewhere
    /\ last' = IF getMeeting(meetings, meetingId) = << >>
               THEN Call("export", meetingId, << >>, "", "NotFound", << >>)
               ELSE Call("export", meetingId, << >>, "", "",
                         <<zipOf(getMeeting(meetings, meetingId)[1])>>)

\* crypto.randomUUID(): an id that no stored meeting has
randomUUID == Ids \ DOMAIN meetings

\* the constructed Meeting stamped with the time of the import
importedMeetingStampsNow(exported, zip, id) ==
    [id         |-> id,
     title      |-> exported.metadata.title,
     date       |-> parseISO(exported.metadata.date),
     duration   |-> exported.metadata.duration,
     audioBlob  |-> IF zip.audio # << >> /\ exported.hasAudio
                    THEN zip.audio[1] ELSE EmptyBlob,
     transcript |-> exported.transcript,
     summary    |-> IF exported.summary # << >>
                    THEN <<[exported.summary[1] EXCEPT
                              !.generatedAt = parseISO(exported.summary[1].generatedAt)]>>
                    ELSE << >>,
     speakers   |-> exported.metadata.speakers,
     tags       |-> exported.metadata.tags,
     category   |-> exported.metadata.category,
     archived   |-> exported.metadata.archived,
     createdAt  |-> parseISO(exported.metadata.createdAt),
     updatedAt  |-> ClockDate(now)]

\* The Meeting importMeeting constructs from the parsed document and the ZIP
importedMeeting(exported, zip, id) ==
    [id         |-> id,
     title      |-> exported.metadata.title,
     date       |-> parseISO(exported.metadata.date),
     duration   |-> exported.metadata.duration,
     audioBlob  |-> IF zip.audio # << >> /\ exported.hasAudio
                    THEN zip.audio[1] ELSE EmptyBlob,
     transcript |-> exported.transcript,
     summary    |-> IF exported.summary # << >>
                    THEN <<[exported.summary[1] EXCEPT
                              !.generatedAt = parseISO(exported.summary[1].generatedAt)]>>
                    ELSE << >>,
     speakers   |-> exported.metadata.speakers,
     tags       |-> exported.metadata.tags,
     category   |-> exported.metadata.category,
     archived   |-> exported.metadata.archived,
     createdAt  |-> parseISO(exported.metadata.createdAt),
     updatedAt  |-> parseISO(exported.metadata.updatedAt)]

\* keep-both without the fresh id
importIdKeepsId(exported, existing, onDuplicate) == {exported.metadata.id}

\* The id the imported meeting is stored under
importId(exported, existing, onDuplicate) ==
    IF existing # << >> /\ onDuplicate = "keep-both"
    THEN randomUUID
    ELSE {exported.metadata.id}

\* the skip branch compared against a policy name that is never passed
isSkippedNever(existing, onDuplicate) == existing # << >> /\ onDuplicate = "Skip"

\* existingMeeting && onDuplicate === 'skip'
isSkipped(existing, onDuplicate) == existing # << >> /\ onDuplicate = "skip"

\* the failure swallowed, as the loop of the bulk import swallows it
importFailsSilently(zip, onDuplicate, err) ==
    /\ UNCHANGED <<meetings, costs, now>>
    /\ pre' = Stores
    /\ UNCHANGED elsewhere
    /\ last' = Call("import", 0, <<zip>>, onDuplicate, "", << >>)

\* importMeeting throws before it reads or writes the store
importFails(zip, onDuplicate, err) ==
    /\ UNCHANGED <<meetings, costs, now>>
    /\ pre' = Stores
    /\ UNCHANGED elsewhere
    /\ last' = Call("import", 0, <<zip>>, onDuplicate, err, << >>)

importMeeting(zip, onDuplicate) ==
    IF zip.metadataJson = << >>
    THEN importFails(zip, onDuplicate, "metadata.json not found")
    ELSE IF zip.metadataJson[1].malformed
    THEN importFails(zip, onDuplicate, "SyntaxError")
    ELSE LET exported == zip.metadataJson[1].value
             existing == getMeeting(meetings, exported.metadata.id)
         IN  IF isSkipped(existing, onDuplicate)
             THEN /\ UNCHANGED <<meetings, costs, now>>
                  /\ pre' = Stores
                  /\ UNCHANGED elsewhere
                  /\ last' = Call("import", exported.metadata.id, <<zip>>, onDuplicate, "",
                                  <<existing[1].id>>)
             ELSE /\ now < MaxClock
                  /\ \E id \in importId(exported, existing, onDuplicate) :
                        /\ meetings' = Put(meetings, id,
                                           meetingToDB(importedMeeting(exported, zip, id)))
                        /\ last' = Call("import", exported.metadata.id, <<zip>>, onDuplicate,
                                        "", <<id>>)
                  /\ costs' = costs
                  /\ now' = now + 1
                  /\ pre' = Stores
                  /\ UNCHANGED elsewhere

\* ------------------------------------------------------------------ inputs
AudioA == MkBlob(<<7, 7>>)
AudioB == MkBlob(<<9>>)

\* Meetings handed to saveMeeting: both bundles, live and archived, with and
\* without audio.
SaveInputs ==
    {SampleMeeting(1, id, FALSE, AudioA) : id \in Ids} \cup
    {SampleMeeting(1, id, TRUE, EmptyBlob) : id \in Ids} \cup
    {SampleMeeting(2, id, TRUE, AudioA) : id \in Ids} \cup
    {SampleMeeting(2, id, FALSE, EmptyBlob) : id \in Ids}

\* Partial<Meeting> objects handed to updateMeeting
UpdateInputs ==
    {[title |-> "Renamed"],
     [archived |-> TRUE],
     [archived |-> FALSE],
     [audioBlob |-> AudioB],
     [summary |-> <<SampleSummary(2)>>],
     [transcript |-> "edited", speakers |-> << >>, tags |-> <<"x">>,
      category |-> "client", duration |-> 42, date |-> SampleDates[3]],
     [id |-> 0, createdAt |-> SampleDates[3], updatedAt |-> SampleDates[1]]}

\* ZIP files handed to importMeeting: archives exported elsewhere, an archive
\* edited by hand (flagged archived, yet carrying audio), one without
\* metadata.json and one whose metadata.json is not JSON.  A metadata.json
\* that parses has the shape exportMeeting writes, with ISO date strings.
ForeignZips ==
    {zipOf(SampleMeeting(2, id, FALSE, AudioB)) : id \in Ids} \cup
    {zipOf(SampleMeeting(1, id, TRUE, EmptyBlob)) : id \in Ids} \cup
    {[zipOf(SampleMeeting(1, id, FALSE, AudioB)) EXCEPT
        !.metadataJson[1].value.metadata.archived = TRUE] : id \in Ids}

NoMetadataZip == [zipOf(SampleMeeting(1, 1, FALSE, AudioA)) EXCEPT !.metadataJson = << >>]

MalformedZip ==
    [zipOf(SampleMeeting(1, 1, FALSE, AudioA)) EXCEPT !.metadataJson = <<[malformed |-> TRUE]>>]

\* The ZIP in hand: one of the above, or the one the last export returned
ImportInputs ==
    ForeignZips \cup {NoMetadataZip, MalformedZip} \cup
    (IF last.op = "export" /\ last.ok THEN {last.ret[1]} ELSE {})

Policies == {"replace", "keep-both", "skip"}

\* (transcriptionCost, summarizationCost) of a logCost call
CostInputs == {<<TranscriptionAmount, Zero>>, <<Zero, SummaryAmount>>}

\* ----------------------------------------------------------- specification
Init ==
    /\ meetings = EmptyStore
    /\ costs = EmptyStore
    /\ now = 0
    /\ last = Call("init", 0, << >>, "", "", << >>)
    /\ pre = [meetings |-> EmptyStore, costs |-> EmptyStore]
    /\ Loaded

DoSave == \E m \in SaveInputs : saveMeeting(m)
DoUpdate == \E id \in Ids, u \in UpdateInputs : updateMeeting(id, u)
DoArchive == \E id \in Ids : archiveMeeting(id)
DoDelete == \E id \in Ids : deleteMeeting(id)
DoExport == \E id \in Ids : exportMeeting(id)
DoImport == \E zip \in ImportInputs, p \in Policies : importMeeting(zip, p)
DoCost == \E c \in CostInputs : updateCostTracking(MonthKey(now), c[1], c[2])

Next ==
    \/ DoSave
    \/ DoUpdate
    \/ DoArchive
    \/ DoDelete
    \/ clearAllData
    \/ DoExport
    \/ DoImport
    \/ DoCost

Spec == Init /\ [][Next]_vars

\* ------------------------------------------- serialization adapter alone
\* The adapter as a pure function: an input is drawn, then converted to its
\* storage form and back.
\* Dates drawn: every day of the leap year 1972 (day 730 is 1972-01-01) up to
\* MaxDay days on, and the days of the sample data.
MaxDay == 366

AdapterDates ==
    {MkDate(day, ms) : day \in {730 + i : i \in 0 .. MaxDay} \cup {0, 11016, 11017, 20088, ClockStartDay},
                       ms \in {0, 3661001, MsPerDay - 1}}

AdapterMeetings ==
    {[SampleMeeting(k, 1, ar, b) EXCEPT !.date = d] :
        k \in 1 .. 2, ar \in BOOLEAN, b \in {EmptyBlob, AudioA}, d \in AdapterDates}

AdapterSummaries ==
    {[SampleSummary(k) EXCEPT !.generatedAt = d] : k \in 1 .. 2, d \in AdapterDates}

AdapterCosts ==
    LET total == FAdd(TranscriptionAmount, SummaryAmount)
    IN  {[month |-> <<toISOString(d).Y, toISOString(d).Mo>>,
          transcriptionCost |-> TranscriptionAmount,
          summarizationCost |-> SummaryAmount, meetingCount |-> 2,
          totalCost |-> total,
          lastUpdated |-> d] : d \in AdapterDates}

InitAdapter ==
    /\ meetings = EmptyStore
    /\ costs = EmptyStore
    /\ now = 0
    /\ pre = [meetings |-> EmptyStore, costs |-> EmptyStore]
    /\ Loaded
    /\ last \in {Call("input", 0, <<m>>, "meeting", "", << >>) : m \in AdapterMeetings}
           \cup {Call("input", 0, <<x>>, "summary", "", << >>) : x \in AdapterSummaries}
           \cup {Call("input", 0, <<c>>, "cost", "", << >>) : c \in AdapterCosts}

RoundTripMeeting ==
    /\ last.op = "input" /\ last.policy = "meeting"
    /\ last' = Call("roundtrip", 0, last.arg, "meeting", "",
                    <<dbToMeeting(meetingToDB(last.arg[1]))>>)
    /\ UNCHANGED <<meetings, costs, now, pre>>
    /\ UNCHANGED elsewhere

RoundTripSummary ==
    /\ last.op = "input" /\ last.policy = "summary"
    /\ last' = Call("roundtrip", 0, last.arg, "summary", "",
                    <<dbToSummary(summaryToDB(last.arg[1]))>>)
    /\ UNCHANGED <<meetings, costs, now, pre>>
    /\ UNCHANGED elsewhere

RoundTripCost ==
    /\ last.op = "input" /\ last.policy = "cost"
    /\ last' = Call("roundtrip", 0, last.arg, "cost", "",
                    <<dbToCostTracking(costTrackingToDB(last.arg[1]))>>)
    /\ UNCHANGED <<meetings, costs, now, pre>>
    /\ UNCHANGED elsewhere

NextAdapter == RoundTripMeeting \/ RoundTripSummary \/ RoundTripCost

SpecAdapter == InitAdapter /\ [][NextAdapter]_vars

\* ================================================================ claims
\* get(id) now, and get(id) when the last call began
Get(id) == getMeeting(meetings, id)
PreGet(id) == getMeeting(pre.meetings, id)

\* The last call was op, on id, and completed without an error
Did(op, id) == last.op = op /\ last.ok /\ last.id = id

\* C1: every meeting that get/getAll returns with archived == true has empty
\* audio, in every reachable state of the meetings collection.
C1_ArchivedHasNoAudio ==
    \A id \in DOMAIN meetings :
        Get(id)[1].archived => BlobSize(Get(id)[1].audioBlob) = 0

\* C2: right after archive(id) completes on a stored meeting, get(id) is
\* archived with empty audio, and every field other than archived, audioBlob
\* and updatedAt is as it was.
C2_ArchiveEffect ==
    \A id \in Ids :
        Did("archive", id) =>
            /\ Get(id) # << >>
            /\ Get(id)[1].archived
            /\ BlobSize(Get(id)[1].audioBlob) = 0
            /\ DOMAIN Get(id)[1] = DOMAIN PreGet(id)[1]
            /\ \A f \in DOMAIN PreGet(id)[1] \ {"archived", "audioBlob", "updatedAt"} :
                   Get(id)[1][f] = PreGet(id)[1][f]

\* C2 witness: archive has acted on a live meeting that carried audio
C2_Witness ==
    \E id \in Ids :
        /\ Did("archive", id)
        /\ ~PreGet(id)[1].archived
        /\ BlobSize(PreGet(id)[1].audioBlob) > 0

\* A record is archived and its audio is empty
Purged(store, id) ==
    getMeeting(store, id)[1].archived /\ BlobSize(getMeeting(store, id)[1].audioBlob) = 0

SuppliedLive(id) ==
    \/ /\ Did("update", id)
       /\ \/ "archived" \in DOMAIN last.arg[1] /\ ~last.arg[1].archived
          \/ "audioBlob" \in DOMAIN last.arg[1] /\ BlobSize(last.arg[1].audioBlob) > 0
    \/ Did("save", id) /\ ~last.arg[1].archived
    \/ /\ Did("import", id) /\ last.policy = "replace"
       /\ ~last.arg[1].metadataJson[1].value.metadata.archived

C4_UpdateIsolation ==
    \A id \in Ids :
        (Did("update", id) /\ DOMAIN last.arg[1] = {"title"}) =>
            /\ DOMAIN meetings = DOMAIN pre.meetings
            /\ meetings[id].title = last.arg[1].title
            /\ DOMAIN meetings[id] = DOMAIN pre.meetings[id]
            /\ \A f \in DOMAIN meetings[id] \ {"title", "updatedAt"} :
                   /\ meetings[id][f] = pre.meetings[id][f]
                   /\ Get(id)[1][f] = PreGet(id)[1][f]
            /\ \A other \in DOMAIN meetings \ {id} : meetings[other] = pre.meetings[other]
            /\ costs = pre.costs

\* C4 witness: a title update has acted, changing the title, with another
\* meeting stored
C4_Witness ==
    \E id \in Ids :
        /\ Did("update", id) /\ DOMAIN last.arg[1] = {"title"}
        /\ meetings[id].title # pre.meetings[id].title
        /\ DOMAIN meetings \ {id} # {}

\* C5: update on an id that is not stored fails with NotFound and writes
\* nothing: both collections are as before and no record for id exists.
C5_UpdateNotFound ==
    (last.op = "update" /\ last.id \notin DOMAIN pre.meetings) =>
        /\ ~last.ok
        /\ last.err = "NotFound"
        /\ meetings = pre.meetings
        /\ costs = pre.costs
        /\ last.id \notin DOMAIN meetings

\* C5 witness: an update of an absent id was attempted while another meeting
\* is stored
C5_Witness ==
    /\ last.op = "update"
    /\ last.id \notin DOMAIN pre.meetings
    /\ DOMAIN pre.meetings # {}

\* C6: fromStorage(toStorage(m)) equals m in every field, except that the
\* audio of an archived m comes back empty; Summary and CostRecord come back
\* equal in every field.
C6_RoundTrip ==
    last.op = "roundtrip" =>
        IF last.policy = "meeting"
        THEN last.ret[1] =
                [last.arg[1] EXCEPT
                    !.audioBlob = IF last.arg[1].archived THEN EmptyBlob ELSE @]
        ELSE last.ret[1] = last.arg[1]

\* C6 witness: an archived meeting that carried audio and a summary, dated on
\* a leap day, has gone through the adapter and back
C6_Witness ==
    /\ last.op = "roundtrip" /\ last.policy = "meeting"
    /\ last.arg[1].archived
    /\ BlobSize(last.arg[1].audioBlob) > 0
    /\ last.arg[1].summary # << >>
    /\ toISOString(last.arg[1].date).Mo = 2 /\ toISOString(last.arg[1].date).D = 29

\* The id in the metadata document of a ZIP; 0 when the document is missing
\* or does not parse
ZipId(zip) ==
    IF zip.metadataJson = << >> THEN 0
    ELSE IF zip.metadataJson[1].malformed THEN 0
    ELSE zip.metadataJson[1].value.metadata.id

\* Meeting m holds the content of the ZIP: every field of its metadata
\* document, and its audio if the document says it has audio and m is live
HoldsContent(m, zip) ==
    LET doc == zip.metadataJson[1].value
    IN  /\ m.title = doc.metadata.title
        /\ m.date = parseISO(doc.metadata.date)
        /\ m.duration = doc.metadata.duration
        /\ m.transcript = doc.transcript
        /\ Len(m.summary) = Len(doc.summary)
        /\ m.summary # << >> =>
              m.summary[1] = [doc.summary[1] EXCEPT
                                 !.generatedAt = parseISO(doc.summary[1].generatedAt)]
        /\ m.speakers = doc.metadata.speakers
        /\ m.tags = doc.metadata.tags
        /\ m.category = doc.metadata.category
        /\ m.archived = doc.metadata.archived
        /\ m.createdAt = parseISO(doc.metadata.createdAt)
        /\ m.updatedAt = parseISO(doc.metadata.updatedAt)
        /\ m.audioBlob = IF ~doc.metadata.archived /\ doc.hasAudio /\ zip.audio # << >>
                         THEN zip.audio[1] ELSE EmptyBlob

\* C7: exporting a stored meeting m and importing that ZIP with policy
\* replace leaves, under m.id, a meeting equal to m in every field except
\* possibly updatedAt, and the same number of stored meetings.
C7_ExportImportRoundTrip ==
    \A id \in DOMAIN pre.meetings :
        (/\ Did("import", id) /\ last.policy = "replace"
         /\ last.arg[1] = zipOf(PreGet(id)[1])) =>
            /\ Get(id) # << >>
            /\ \A f \in DOMAIN PreGet(id)[1] \ {"updatedAt"} :
                   Get(id)[1][f] = PreGet(id)[1][f]
            /\ Cardinality(DOMAIN meetings) = Cardinality(DOMAIN pre.meetings)

\* C8: importing with policy keep-both a ZIP whose id is stored returns an
\* id that is neither the colliding id nor any stored id, inserts the ZIP's
\* content under it (one more meeting), and leaves every record that was
\* stored as it was.
C8_KeepBoth ==
    \A id \in DOMAIN pre.meetings :
        (last.op = "import" /\ last.policy = "keep-both" /\ ZipId(last.arg[1]) = id) =>
            /\ last.ok
            /\ Len(last.ret) = 1
            /\ last.ret[1] # id
            /\ last.ret[1] \notin DOMAIN pre.meetings
            /\ DOMAIN meetings = DOMAIN pre.meetings \cup {last.ret[1]}
            /\ Cardinality(DOMAIN meetings) = Cardinality(DOMAIN pre.meetings) + 1
            /\ \A k \in DOMAIN pre.meetings : meetings[k] = pre.meetings[k]
            /\ Get(last.ret[1])[1].id = last.ret[1]
            /\ HoldsContent(Get(last.ret[1])[1], last.arg[1])

\* C8 witness: keep-both has acted on a colliding ZIP whose content differs
\* from the stored meeting
C8_Witness ==
    \E id \in DOMAIN pre.meetings :
        /\ Did("import", id) /\ last.policy = "keep-both"
        /\ ZipId(last.arg[1]) = id
        /\ ~HoldsContent(PreGet(id)[1], last.arg[1])

\* C9: importing with policy skip a ZIP whose id is stored returns that id
\* and writes nothing: both collections are identical before and after.
C9_Skip ==
    \A id \in DOMAIN pre.meetings :
        (last.op = "import" /\ last.policy = "skip" /\ ZipId(last.arg[1]) = id) =>
            /\ last.ok
            /\ last.ret = <<id>>
            /\ meetings = pre.meetings
            /\ costs = pre.costs

\* C9 witness: skip has acted on a colliding ZIP whose content differs from
\* the stored meeting, with a cost record stored
C9_Witness ==
    \E id \in DOMAIN pre.meetings :
        /\ last.op = "import" /\ last.policy = "skip" /\ ZipId(last.arg[1]) = id
        /\ ~HoldsContent(PreGet(id)[1], last.arg[1])
        /\ DOMAIN costs # {}

\* C10: importing with policy replace a ZIP whose id is stored returns that
\* id, leaves the number of stored meetings unchanged, and get(id) then holds
\* the ZIP's content in every field.
C10_Replace ==
    \A id \in DOMAIN pre.meetings :
        (last.op = "import" /\ last.policy = "replace" /\ ZipId(last.arg[1]) = id) =>
            /\ last.ok
            /\ last.ret = <<id>>
            /\ DOMAIN meetings = DOMAIN pre.meetings
            /\ Cardinality(DOMAIN meetings) = Cardinality(DOMAIN pre.meetings)
            /\ Get(id)[1].id = id
            /\ HoldsContent(Get(id)[1], last.arg[1])

\* C10 witness: replace has acted on a record that differed from the ZIP in
\* every field the document carries
C10_Witness ==
    \E id \in DOMAIN pre.meetings :
        /\ Did("import", id) /\ last.policy = "replace" /\ ZipId(last.arg[1]) = id
        /\ \A f \in {"title", "date", "duration", "transcript", "summary", "speakers",
                     "tags", "category", "archived", "createdAt", "updatedAt"} :
               PreGet(id)[1][f] # Get(id)[1][f]

\* ------------------------------------------------------- cost ledger alone
\* logCost and its caller on the record page, against a store that can fail.
\* At most MaxCalls calls are made.
MaxCalls == 3

\* Where the store fails inside updateCostTracking: nowhere, when initDB opens
\* the database, at db.get, or at db.put
StoreFaults == {"none", "open", "get", "put"}

\* updateCostTracking against a cost store: the error it throws ("" if none)
\* and the store it leaves.  A failed put aborts its transaction.
updateCostTrackingOutcome(store, month, transcriptionCost, summarizationCost, t, fault) ==
    IF fault = "none"
    THEN [err   |-> "",
          costs |-> Put(store, month,
                        costRecord(IF month \in DOMAIN store THEN <<store[month]>> ELSE << >>,
                                   month, transcriptionCost, summarizationCost, t))]
    ELSE [err |-> fault, costs |-> store]

\* the error passed on to the caller
logCostRethrows(err) == err

\* What logCost throws when its try block threw err: the catch logs the error
\* and returns
logCostThrows(err) == ""

\* The calls made to the ledger so far, oldest first: type, amount in cents,
\* and the fault the store had
LedgerLog == IF last.op \in {"logCost", "handleStop"} THEN last.arg ELSE << >>

\* updateCostTracking as logCost calls it at clock tick t
logCostOutcome(type, cents, fault, t) ==
    updateCostTrackingOutcome(costs, MonthKey(t),
                              IF type = "transcription" THEN Dollars(cents) ELSE Zero,
                              IF type = "summarization" THEN Dollars(cents) ELSE Zero,
                              t, fault)

logCost(type, cents, fault) ==
    LET out == logCostOutcome(type, cents, fault, now)
    IN  /\ Len(LedgerLog) < MaxCalls
        /\ costs' = out.costs
        /\ meetings' = meetings
        /\ now' = IF out.err = "" THEN now + 1 ELSE now
        /\ pre' = Stores
        /\ UNCHANGED elsewhere
        /\ last' = Call("logCost", 0,
                        Append(LedgerLog, [type |-> type, cents |-> cents, fault |-> fault]),
                        "", logCostThrows(out.err), <<out.err>>)

\* handleStop of the record page from the transcription response on: the cost
\* is logged, then the meeting is built and saved.  An error thrown on the
\* way ends the handler in its catch block, before the save.
handleStop(cents, fault) ==
    LET out    == logCostOutcome("transcription", cents, fault, now)
        thrown == logCostThrows(out.err)
        t      == IF out.err = "" THEN now + 1 ELSE now
    IN  /\ Len(LedgerLog) < MaxCalls
        /\ \E id \in randomUUID :
              /\ meetings' =
                    IF thrown = ""
                    THEN Put(meetings, id,
                             meetingToDB([SampleMeeting(1, id, FALSE, AudioA) EXCEPT
                                             !.date = ClockDate(t),
                                             !.createdAt = ClockDate(t),
                                             !.updatedAt = ClockDate(t)]))
                    ELSE meetings
              /\ last' = Call("handleStop", id,
                              Append(LedgerLog, [type |-> "transcription", cents |-> cents,
                                                 fault |-> fault]),
                              "", thrown, <<out.err>>)
        /\ costs' = out.costs
        /\ now' = IF thrown = "" THEN t + 1 ELSE t
        /\ pre' = Stores
        /\ UNCHANGED elsewhere

\* A transcription costs $0.10, a summary $0.20
LedgerInputs ==
    {[type |-> "transcription", cents |-> 10], [type |-> "summarization", cents |-> 20]}

DoLogCost == \E c \in LedgerInputs, f \in StoreFaults : logCost(c.type, c.cents, f)
DoHandleStop == \E f \in StoreFaults : handleStop(10, f)

NextLedger == DoLogCost \/ DoHandleStop

SpecLedger == Init /\ [][NextLedger]_vars

\* ================================================================ queries
\* The key of the 'by-date' index: the stored ISO string.  IndexedDB orders
\* string keys character by character; the fields of an ISO string are
\* zero-padded, so the order is that of the fields from year to millisecond.
isoKey(iso) == <<iso.Y, iso.Mo, iso.D, iso.h, iso.mi, iso.s, iso.sss>>

keyLess(a, b) ==
    \E i \in 1 .. Len(a) : a[i] < b[i] /\ \A j \in 1 .. i - 1 : a[j] = b[j]

\* Position of two records in the index: by index key, then by primary key
indexBefore(x, y) ==
    \/ keyLess(isoKey(x.date), isoKey(y.date))
    \/ isoKey(x.date) = isoKey(y.date) /\ x.id < y.id

\* db.getAllFromIndex('meetings', 'by-date'): the records in index order
getAllFromIndex(store) ==
    [r \in 1 .. Cardinality(DOMAIN store) |->
        store[CHOOSE id \in DOMAIN store :
                 Cardinality({o \in DOMAIN store : indexBefore(store[o], store[id])}) = r - 1]]

\* the comparator with its operands exchanged
compareFnAscending(a, b) ==
    IF a.date.day # b.date.day
    THEN (IF a.date.day > b.date.day THEN 1 ELSE -1)
    ELSE IF a.date.ms # b.date.ms
    THEN (IF a.date.ms > b.date.ms THEN 1 ELSE -1)
    ELSE 0

\* (a, b) => b.date.getTime() - a.date.getTime(), as its sign; the difference
\* of the two time values is taken limb by limb
compareFn(a, b) ==
    IF a.date.day # b.date.day
    THEN (IF b.date.day > a.date.day THEN 1 ELSE -1)
    ELSE IF a.date.ms # b.date.ms
    THEN (IF b.date.ms > a.date.ms THEN 1 ELSE -1)
    ELSE 0

\* a sort that exchanges elements the comparator calls equal
sortReversingTies(s) ==
    [r \in 1 .. Len(s) |->
        s[CHOOSE i \in 1 .. Len(s) :
             Cardinality({j \in 1 .. Len(s) : compareFn(s[j], s[i]) < 0}) +
             Cardinality({j \in i + 1 .. Len(s) : compareFn(s[j], s[i]) = 0}) = r - 1]]

\* Array.prototype.sort(compareFn): elements in the order of the comparator,
\* elements it calls equal in the order they had (the sort is stable)
sort(s) ==
    [r \in 1 .. Len(s) |->
        s[CHOOSE i \in 1 .. Len(s) :
             Cardinality({j \in 1 .. Len(s) : compareFn(s[j], s[i]) < 0}) +
             Cardinality({j \in 1 .. i - 1 : compareFn(s[j], s[i]) = 0}) = r - 1]]

\* getAllMeetings against a 'meetings' store
getAllMeetings(store) ==
    sort([i \in 1 .. Cardinality(DOMAIN store) |-> dbToMeeting(getAllFromIndex(store)[i])])

\* ----------------------------------------------------------------- strings
\* Where the code inspects the characters of a string, the string is the
\* sequence of its characters.
UpperCase ==
    <<"A", "B", "C", "D", "E", "F", "G", "H", "I", "J", "K", "L", "M",
      "N", "O", "P", "Q", "R", "S", "T", "U", "V", "W", "X", "Y", "Z">>

LowerCase ==
    <<"a", "b", "c", "d", "e", "f", "g", "h", "i", "j", "k", "l", "m",
      "n", "o", "p", "q", "r", "s", "t", "u", "v", "w", "x", "y", "z">>

\* String.prototype.toLowerCase, for strings of ASCII characters
toLowerCase(text) ==
    [i \in 1 .. Len(text) |->
        IF \E k \in 1 .. 26 : UpperCase[k] = text[i]
        THEN LowerCase[CHOOSE k \in 1 .. 26 : UpperCase[k] = text[i]]
        ELSE text[i]]

\* String.prototype.includes
includes(text, sub) ==
    \E i \in 0 .. Len(text) - Len(sub) : SubSeq(text, i + 1, i + Len(sub)) = sub

\* ------------------------------------------------------------------ search
\* the query compared as it was typed
lowerQueryAsTyped(query) == query

\* const lowerQuery = query.toLowerCase()
lowerQuery(query) == toLowerCase(query)

\* The predicate of the filter in searchMeetings
matchesQuery(meeting, query) ==
    \/ includes(toLowerCase(meeting.title), lowerQuery(query))
    \/ includes(toLowerCase(meeting.transcript), lowerQuery(query))
    \/ \E i \in 1 .. Len(meeting.tags) :
          includes(toLowerCase(meeting.tags[i]), lowerQuery(query))
    \/ /\ meeting.summary # << >>
       /\ includes(toLowerCase(meeting.summary[1].executive), lowerQuery(query))
    \/ /\ meeting.summary # << >>
       /\ \E i \in 1 .. Len(meeting.summary[1].keyPoints) :
             includes(toLowerCase(meeting.summary[1].keyPoints[i]), lowerQuery(query))

\* searchMeetings against a 'meetings' store
searchMeetings(store, query) ==
    SelectSeq(getAllMeetings(store), LAMBDA m : matchesQuery(m, query))

\* ------------------------------------------------------------ search alone
\* searchMeetings as a function of the store and the query: a store is drawn,
\* then queries are run against it.
\* Texts put into the fields of the stored meetings, and the filler "z"
SearchTexts == {<<"A", "b">>, <<"b", "A", "B">>}
Filler == <<"z">>

\* The fields a text is put into: those the search reads, one of the summary
\* it does not read (decisions), none, and none with the summary absent
SearchFields ==
    {"title", "transcript", "tag", "executive", "keyPoint", "decision", "none", "noSummary"}

\* A meeting whose texts are all "z", except that field holds text
SearchMeeting(id, field, text, date) ==
    [SampleMeeting(2, id, FALSE, AudioA) EXCEPT
        !.date       = date,
        !.title      = IF field = "title" THEN text ELSE Filler,
        !.transcript = IF field = "transcript" THEN text ELSE Filler,
        !.tags       = IF field = "tag" THEN <<Filler, text>> ELSE <<Filler>>,
        !.summary    = IF field = "noSummary" THEN << >>
                       ELSE <<[SampleSummary(1) EXCEPT
                                 !.executive = IF field = "executive" THEN text ELSE Filler,
                                 !.keyPoints = IF field = "keyPoint"
                                               THEN <<Filler, text>> ELSE <<Filler>>,
                                 !.decisions = IF field = "decision" THEN <<text>> ELSE << >>,
                                 !.tags      = <<text>>]>>]

\* Stores drawn: meeting 1 alone, or with a meeting 2 that is older, of the
\* same date, or newer
SearchStores ==
    LET first == {SearchMeeting(1, f, t, SampleDates[2]) : f \in SearchFields, t \in SearchTexts}
        second == {SearchMeeting(2, f, t, d) :
                      f \in SearchFields, t \in SearchTexts, d \in {SampleDates[k] : k \in 1 .. 3}}
    IN  {Put(EmptyStore, 1, meetingToDB(a)) : a \in first} \cup
        {Put(Put(EmptyStore, 1, meetingToDB(a)), 2, meetingToDB(b)) : a \in first, b \in second}

\* Queries typed: empty, in either case, longer than a text, absent
SearchQueries ==
    {<< >>, <<"a">>, <<"A", "B">>, <<"a", "b", "a">>, <<"B", "a">>, <<"z">>, <<"q">>}

InitSearch ==
    /\ meetings \in SearchStores
    /\ costs = EmptyStore
    /\ now = 0
    /\ last = Call("init", 0, << >>, "", "", << >>)
    /\ pre = [meetings |-> meetings, costs |-> EmptyStore]
    /\ Loaded

DoSearch ==
    \E query \in SearchQueries :
        /\ last' = Call("search", 0, <<query>>, "", "", <<searchMeetings(meetings, query)>>)
        /\ pre' = Stores
        /\ UNCHANGED elsewhere
        /\ UNCHANGED <<meetings, costs, now>>

NextSearch == DoSearch

SpecSearch == InitSearch /\ [][NextSearch]_vars

\* -------------------------------------------------------------- bulk export
Digits == <<"0", "1", "2", "3", "4", "5", "6", "7", "8", "9">>

\* the character class [a-z0-9]
alnum(c) ==
    \/ \E k \in 1 .. 26 : LowerCase[k] = c
    \/ \E k \in 1 .. 10 : Digits[k] = c

\* replace(/[^a-z0-9]+/g, '-'): every run of other characters becomes one '-'
hyphenate(text) ==
    LET kept == {i \in 1 .. Len(text) : alnum(text[i]) \/ i = 1 \/ alnum(text[i - 1])}
        at(r) == CHOOSE i \in kept : Cardinality({j \in kept : j < i}) = r - 1
    IN  [r \in 1 .. Cardinality(kept) |-> IF alnum(text[at(r)]) THEN text[at(r)] ELSE "-"]

\* replace(/^-|-$/g, ''): a leading and a trailing '-' are removed
trimHyphens(text) ==
    LET first == IF Len(text) > 0 /\ text[1] = "-" THEN 2 ELSE 1
        final == IF Len(text) >= first /\ text[Len(text)] = "-"
                 THEN Len(text) - 1 ELSE Len(text)
    IN  SubSeq(text, first, final)

\* titleSlug of exportAllMeetings
titleSlug(title) ==
    LET slug == trimHyphens(hyphenate(toLowerCase(title)))
    IN  SubSeq(slug, 1, IF Len(slug) < 50 THEN Len(slug) ELSE 50)

\* meeting.date.toISOString().split('T')[0]
dateStr(date) == <<toISOString(date).Y, toISOString(date).Mo, toISOString(date).D>>

\* meeting.id.substring(0, 8): ids 2k-1 and 2k stand for two id strings that
\* have their first eight characters in common
idPrefix(id) == (id + 1) \div 2

\* `${dateStr}_${titleSlug}_${meeting.id.substring(0, 8)}`
folderName(meeting) == <<dateStr(meeting.date), titleSlug(meeting.title), idPrefix(meeting.id)>>

\* The files of a folder after the file() calls for a further meeting: a file
\* written again replaces the one of that name, the others stay
overwritten(old, new) ==
    [audio        |-> IF new.audio # << >> THEN new.audio ELSE old.audio,
     texts        |-> old.texts \cup new.texts,
     metadataJson |-> new.metadataJson]

\* zip.folder(folderName) and the file() calls of one pass of the loop:
\* JSZip hands back the folder of that name if the archive has one, and adds
\* one at the end otherwise
withMeetingFolder(folders, meeting) ==
    IF \E i \in 1 .. Len(folders) : folders[i].name = folderName(meeting)
    THEN [i \in 1 .. Len(folders) |->
            IF folders[i].name = folderName(meeting)
            THEN [name |-> folders[i].name,
                  zip  |-> overwritten(folders[i].zip, zipOf(meeting))]
            ELSE folders[i]]
    ELSE Append(folders, [name |-> folderName(meeting), zip |-> zipOf(meeting)])

\* the folders of the archive after the first n meetings of the list
RECURSIVE meetingFolders(_, _)
meetingFolders(list, n) ==
    IF n = 0 THEN << >>
    ELSE withMeetingFolder(meetingFolders(list, n - 1), list[n])

\* The values onProgress is called with: ((i + 1) / meetings.length) * 100
\* after each meeting, kept as the pair; then the percent of generateAsync,
\* which ends at 100
progressReports(n) ==
    [i \in 1 .. n |-> [current |-> i, total |-> n]] \o <<[current |-> n, total |-> n]>>

\* the outcome without the check for an empty list
exportAllOutcomeUnchecked(list) ==
    [err      |-> "",
     zip      |-> <<[folders |-> meetingFolders(list, Len(list)), readme |-> Len(list)]>>,
     progress |-> progressReports(Len(list))]

\* What exportAllMeetings does with the list getAllMeetings returned: the
\* error thrown, the archive returned, the progress reported
exportAllOutcome(list) ==
    IF Len(list) = 0
    THEN [err |-> "No meetings to export", zip |-> << >>, progress |-> << >>]
    ELSE [err      |-> "",
          zip      |-> <<[folders |-> meetingFolders(list, Len(list)), readme |-> Len(list)]>>,
          progress |-> progressReports(Len(list))]

\* the export leaving its mark on the exported record
exportAllMeetingsTouching ==
    /\ meetings' = [id \in DOMAIN meetings |->
                       [meetings[id] EXCEPT !.updatedAt = toISOString(ClockDate(now))]]
    /\ UNCHANGED <<costs, now>>
    /\ pre' = Stores
    /\ UNCHANGED elsewhere
    /\ last' = LET out == exportAllOutcome(getAllMeetings(meetings))
               IN  Call("exportAll", 0, <<out.progress>>, "", out.err, out.zip)

\* exportAllMeetings(onProgress); the argument recorded is the list of values
\* onProgress was called with
exportAllMeetings ==
    /\ UNCHANGED <<meetings, costs, now>>
    /\ pre' = Stores
    /\ UNCHANGED elsewhere
    /\ last' = LET out == exportAllOutcome(getAllMeetings(meetings))
               IN  Call("exportAll", 0, <<out.progress>>, "", out.err, out.zip)

\* -------------------------------------------------------------- bulk import
\* crypto.randomUUID() during a bulk import: an id that no archive carries
\* and the store does not hold; MaxFresh of them are at hand
MaxFresh == 2

freshUUID(store) == (MaxIds + 1 .. MaxIds + MaxFresh) \ DOMAIN store

\* the loop left at the first folder that cannot be read
nextFolderNone(folders, i) == Len(folders) + 1

\* The folder the loop turns to after folder i was skipped (continue, or the
\* catch block)
nextFolder(folders, i) == i + 1

\* The passes of the loop of importAllMeetings from folder i on.  acc is the
\* store, the ids pushed and the progress reported so far; the result is the
\* set of states the loop can end in, one for each choice of fresh ids.
RECURSIVE importFolders(_, _, _, _)
importFolders(folders, i, onDuplicate, acc) ==
    IF i > Len(folders) THEN {acc}
    ELSE IF folders[i].zip.metadataJson = << >>
    THEN importFolders(folders, nextFolder(folders, i), onDuplicate, acc)
    ELSE IF folders[i].zip.metadataJson[1].malformed
    THEN importFolders(folders, nextFolder(folders, i), onDuplicate, acc)
    ELSE LET zip      == folders[i].zip
             exported == zip.metadataJson[1].value
             existing == getMeeting(acc.store, exported.metadata.id)
         IN  IF isSkipped(existing, onDuplicate)
             THEN importFolders(folders, i + 1, onDuplicate,
                                [acc EXCEPT !.ids = Append(@, existing[1].id)])
             ELSE UNION {importFolders(folders, i + 1, onDuplicate,
                            [store    |-> Put(acc.store, id,
                                              meetingToDB(importedMeeting(exported, zip, id))),
                             ids      |-> Append(acc.ids, id),
                             progress |-> Append(acc.progress,
                                                 [current |-> i, total |-> Len(folders)])]) :
                         id \in IF existing # << >> /\ onDuplicate = "keep-both"
                                THEN freshUUID(acc.store)
                                ELSE {exported.metadata.id}}

\* importAllMeetings(zipBlob, onProgress, onDuplicate); the arguments recorded
\* are the archive and the list of values onProgress was called with
importAllMeetings(container, onDuplicate) ==
    IF Len(container.folders) = 0
    THEN /\ UNCHANGED <<meetings, costs, now>>
         /\ pre' = Stores
         /\ UNCHANGED elsewhere
         /\ last' = Call("importAll", 0, <<container, << >>>>, onDuplicate,
                         "No meetings found in export file", << >>)
    ELSE \E out \in importFolders(container.folders, 1, onDuplicate,
                                  [store |-> meetings, ids |-> << >>, progress |-> << >>]) :
            /\ out.progress # << >> => now < MaxClock
            /\ meetings' = out.store
            /\ costs' = costs
            /\ now' = IF out.progress # << >> THEN now + 1 ELSE now
            /\ pre' = Stores
            /\ UNCHANGED elsewhere
            /\ last' = Call("importAll", 0, <<container, out.progress>>, onDuplicate, "",
                            <<out.ids>>)

\* ------------------------------------------------- bulk export and import
\* The two bulk operations next to save, delete, the single export and the
\* cost store.  Titles are character sequences here, for the folder names.
\* Meeting 1 "Q3 Plan!" and meeting 2 "q3 - plan" are of the same day and get
\* the same slug; 3 has another title, 4 another day.
BulkMeeting(k, id) ==
    CASE k = 1 -> [SampleMeeting(1, id, FALSE, AudioA) EXCEPT
                      !.title = <<"Q", "3", " ", "P", "l", "a", "n", "!">>,
                      !.date = SampleDates[2]]
      [] k = 2 -> [SampleMeeting(2, id, TRUE, EmptyBlob) EXCEPT
                      !.title = <<"q", "3", " ", "-", " ", "p", "l", "a", "n">>,
                      !.date = MkDate(SampleDates[2].day, 3661001)]
      [] k = 3 -> [SampleMeeting(1, id, FALSE, AudioB) EXCEPT
                      !.title = <<"O", "p", "s">>,
                      !.date = SampleDates[2]]
      [] k = 4 -> [SampleMeeting(2, id, FALSE, EmptyBlob) EXCEPT
                      !.title = <<"Q", "3", " ", "P", "l", "a", "n", "!">>,
                      !.date = SampleDates[3]]

BulkSaveInputs == {BulkMeeting(k, id) : k \in 1 .. 4, id \in Ids}

\* a folder as exportAllMeetings writes it for a meeting
FolderOf(meeting) == [name |-> folderName(meeting), zip |-> zipOf(meeting)]

\* a folder without metadata.json, and one whose metadata.json is not JSON
NoMetadataFolder == [name |-> <<<<2025, 1, 1>>, <<"x">>, 0>>, zip |-> NoMetadataZip]
MalformedFolder == [name |-> <<<<2025, 1, 1>>, <<"y">>, 0>>, zip |-> MalformedZip]

\* Archives handed to importAllMeetings: written elsewhere, with folders that
\* cannot be read at the start, in the middle and at the end; one that names
\* the same id twice; one without a readable folder; one without folders
ForeignContainers ==
    {[folders |-> <<FolderOf(BulkMeeting(1, 1)), NoMetadataFolder, FolderOf(BulkMeeting(3, 2))>>,
      readme |-> 3],
     [folders |-> <<MalformedFolder, FolderOf(BulkMeeting(2, 1)), FolderOf(BulkMeeting(4, 2))>>,
      readme |-> 3],
     [folders |-> <<FolderOf(BulkMeeting(1, 1)), FolderOf(BulkMeeting(3, 1)), MalformedFolder>>,
      readme |-> 3],
     [folders |-> <<NoMetadataFolder, MalformedFolder>>, readme |-> 2],
     [folders |-> << >>, readme |-> 0]}

\* The archive in hand: one of the above, or the one the last bulk export returned
BulkImportInputs ==
    ForeignContainers \cup
    (IF last.op = "exportAll" /\ last.ok THEN {last.ret[1]} ELSE {})

DoSaveBulk == \E m \in BulkSaveInputs : saveMeeting(m)
DoImportAll == \E c \in BulkImportInputs, p \in Policies : importAllMeetings(c, p)

NextBulk ==
    \/ DoSaveBulk
    \/ DoDelete
    \/ DoCost
    \/ DoExport
    \/ exportAllMeetings
    \/ DoImportAll

SpecBulk == Init /\ [][NextBulk]_vars

\* ======================================================== claims, continued
\* date a is before date b
Earlier(a, b) == a.day < b.day \/ (a.day = b.day /\ a.ms < b.ms)

\* C11: getAll() returns every stored meeting exactly once, with dates
\* non-increasing from first to last; after a save of a meeting whose date is
\* older than the date of every meeting stored before, that meeting is the
\* last element.
C11_GetAllNewestFirst ==
    LET all == getAllMeetings(meetings)
    IN  /\ Len(all) = Cardinality(DOMAIN meetings)
        /\ \A id \in DOMAIN meetings : \E i \in 1 .. Len(all) : all[i] = Get(id)[1]
        /\ \A i, j \in 1 .. Len(all) : i < j => ~Earlier(all[i].date, all[j].date)
        /\ \A id \in Ids :
              (/\ Did("save", id)
               /\ \A o \in DOMAIN pre.meetings :
                     Earlier(last.arg[1].date, PreGet(o)[1].date))
              => all[Len(all)].id = id

\* C11 witness: an older meeting was saved next to a newer one, and comes last
C11_Witness ==
    \E id \in Ids :
        /\ Did("save", id)
        /\ DOMAIN pre.meetings \ {id} # {}
        /\ \A o \in DOMAIN pre.meetings : Earlier(last.arg[1].date, PreGet(o)[1].date)
        /\ Len(getAllMeetings(meetings)) = 2
        /\ getAllMeetings(meetings)[2].id = id
        /\ Earlier(getAllMeetings(meetings)[2].date, getAllMeetings(meetings)[1].date)

\* C12: two stored meetings with the same date appear in getAll() in the
\* order of their ids, whatever the order in which saves, updates and deletes
\* put them there; with the date order this fixes every position of the
\* result from the stored set alone.
C12_TiesInIdOrder ==
    LET all == getAllMeetings(meetings)
    IN  \A i, j \in 1 .. Len(all) :
            (i < j /\ all[i].date = all[j].date) => all[i].id < all[j].id

\* C12 witness: id 1 was saved after id 2 with the same date, and is listed first
C12_Witness ==
    /\ Did("save", 1)
    /\ DOMAIN pre.meetings = {2}
    /\ Get(1)[1].date = Get(2)[1].date
    /\ getAllMeetings(meetings)[1].id = 1
    /\ getAllMeetings(meetings)[2].id = 2

\* The ZIP has no metadata.json, or one that JSON.parse rejects
InvalidZip(zip) == zip.metadataJson = << >> \/ zip.metadataJson[1].malformed

\* C19: importMeeting of an archive whose metadata.json is missing or does not
\* parse fails with an error under every duplicate policy, returns no id, and
\* leaves the meetings store as it was.
C19_ImportInvalidFails ==
    (last.op = "import" /\ InvalidZip(last.arg[1]))
    => /\ ~last.ok
       /\ last.err \in {"metadata.json not found", "SyntaxError"}
       /\ last.ret = << >>
       /\ meetings = pre.meetings
       /\ costs = pre.costs

\* C19 witness: an archive without a readable metadata.json was imported with
\* policy replace or keep-both while
\* both ids were stored
C19_Witness ==
    /\ last.op = "import"
    /\ InvalidZip(last.arg[1])
    /\ last.policy \in {"replace", "keep-both"}
    /\ ~last.ok
    /\ DOMAIN meetings = Ids
    /\ meetings = pre.meetings

\* the amounts of one type in a ledger log added up as numbers, in call order
RECURSIVE FSum(_, _)
FSum(log, type) ==
    IF log = << >> THEN Zero
    ELSE FAdd(FSum(SubSeq(log, 1, Len(log) - 1), type),
              IF log[Len(log)].type = type THEN Dollars(log[Len(log)].cents) ELSE Zero)

\* Every call of the log found the store working, and all fell in one month
Accumulated(log) ==
    /\ last.op \in {"logCost", "handleStop"}
    /\ \A i \in 1 .. Len(log) : log[i].fault = "none"
    /\ MonthKey(now) = MonthKey(0)

\* C14: after n calls of logCost in one month, one after the other, starting
\* without a record for the month, the month's record holds the sum of the
\* transcription amounts, the sum of the summarization amounts, meetingCount
\* n and totalCost = transcriptionCost + summarizationCost; three calls with
\* 0.10 for a transcription give transcriptionCost 0.30, meetingCount 3,
\* summarizationCost 0 and totalCost 0.30.
C14_LedgerAccumulation ==
    Accumulated(last.arg)
    => /\ MonthKey(0) \in DOMAIN costs
       /\ LET rec == dbToCostTracking(costs[MonthKey(0)])
              log == last.arg
          IN  /\ rec.transcriptionCost = FSum(log, "transcription")
              /\ rec.summarizationCost = FSum(log, "summarization")
              /\ rec.meetingCount = Len(log)
              /\ rec.totalCost = FAdd(rec.transcriptionCost, rec.summarizationCost)
              /\ (/\ Len(log) = 3
                  /\ \A i \in 1 .. 3 : log[i].type = "transcription" /\ log[i].cents = 10)
                 => /\ rec.transcriptionCost = Dollars(30)
                    /\ rec.meetingCount = 3
                    /\ rec.summarizationCost = Zero
                    /\ rec.totalCost = Dollars(30)

\* The fault of the call the ledger saw last
LastFault == last.arg[Len(last.arg)].fault

\* C15: whatever the store does (it cannot be opened, the read fails, the
\* put fails), logCost returns normally, so its caller goes on to save the
\* meeting; a call during which the store failed leaves the cost store as it
\* was.
C15_LogCostNeverRaises ==
    /\ last.op \in {"logCost", "handleStop"}
       => /\ last.ok
          /\ LastFault # "none" => costs = pre.costs
    /\ last.op = "handleStop"
       => /\ last.id \notin DOMAIN pre.meetings
          /\ last.id \in DOMAIN meetings
          /\ Get(last.id)[1].transcript = SampleMeeting(1, last.id, FALSE, AudioA).transcript

\* C15 witness: the put failed while handleStop logged the cost; the cost
\* record kept its earlier amount and the meeting was saved
C15_Witness ==
    /\ last.op = "handleStop"
    /\ LastFault = "put"
    /\ last.ok
    /\ last.ret = <<"put">>
    /\ MonthKey(0) \in DOMAIN costs
    /\ costs = pre.costs
    /\ last.id \in DOMAIN meetings \ DOMAIN pre.meetings

\* Two characters are the same letter in either case, or the same character
SameLetter(a, b) ==
    a = b \/ \E k \in 1 .. 26 : {a, b} = {UpperCase[k], LowerCase[k]}

\* T occurs in text as a substring, case ignored
Occurs(T, text) ==
    \E i \in 0 .. Len(text) - Len(T) :
        \A k \in 1 .. Len(T) : SameLetter(text[i + k], T[k])

\* T occurs in one of the fields of m the search covers
Hit(T, m) ==
    \/ Occurs(T, m.title)
    \/ Occurs(T, m.transcript)
    \/ \E i \in 1 .. Len(m.tags) : Occurs(T, m.tags[i])
    \/ m.summary # << >> /\ Occurs(T, m.summary[1].executive)
    \/ m.summary # << >> /\ \E i \in 1 .. Len(m.summary[1].keyPoints) :
                                Occurs(T, m.summary[1].keyPoints[i])

\* position of the meeting with this id in a list of meetings, 0 if absent
PosOf(list, id) ==
    IF \E i \in 1 .. Len(list) : list[i].id = id
    THEN CHOOSE i \in 1 .. Len(list) : list[i].id = id
    ELSE 0

\* C13: a stored meeting is in search(T) exactly if T occurs, case ignored,
\* as a substring of its title, its transcript, one of its tags, or, if it
\* has a summary, the executive text or one of the key points; each result is
\* the meeting as getAll() lists it, once, and the results are in the order
\* of getAll().
C13_SearchSoundComplete ==
    last.op = "search"
    => LET T   == last.arg[1]
           res == last.ret[1]
           all == getAllMeetings(meetings)
       IN  /\ \A id \in DOMAIN meetings : (PosOf(res, id) > 0) <=> Hit(T, Get(id)[1])
           /\ \A i \in 1 .. Len(res) :
                 /\ PosOf(all, res[i].id) > 0
                 /\ res[i] = all[PosOf(all, res[i].id)]
           /\ \A i, j \in 1 .. Len(res) :
                 i < j => PosOf(all, res[i].id) < PosOf(all, res[j].id)

\* C13 witness: a query typed in upper case found, through a key point in
\* mixed case, the second of two stored meetings and not the first
C13_Witness ==
    /\ last.op = "search"
    /\ last.arg[1] = <<"B", "a">>
    /\ DOMAIN meetings = {1, 2}
    /\ Len(last.ret[1]) = 1
    /\ last.ret[1][1].id = getAllMeetings(meetings)[2].id
    /\ ~includes(last.ret[1][1].title, <<"b", "a">>)
    /\ \E i \in 1 .. Len(last.ret[1][1].summary[1].keyPoints) :
          last.ret[1][1].summary[1].keyPoints[i] = <<"b", "A", "B">>

\* C16: a bulk export while no meeting is stored fails with the error 'No
\* meetings to export', returns no archive, reports no progress, and leaves
\* the meetings and the cost store as they were.
C16_BulkExportEmpty ==
    (last.op = "exportAll" /\ DOMAIN pre.meetings = {})
    => /\ ~last.ok
       /\ last.err = "No meetings to export"
       /\ last.ret = << >>
       /\ last.arg = << << >> >>
       /\ meetings = pre.meetings
       /\ costs = pre.costs

\* C16 witness: the bulk export failed on an empty meetings store while the
\* cost store held a record
C16_Witness ==
    /\ last.op = "exportAll"
    /\ ~last.ok
    /\ DOMAIN meetings = {}
    /\ DOMAIN costs # {}
    /\ costs = pre.costs

\* The ids in the metadata documents of the folders of an archive
FolderIds(container) ==
    {ZipId(container.folders[i].zip) : i \in 1 .. Len(container.folders)}

\* C17: a bulk export of n >= 1 stored meetings returns an archive with n
\* folders, and the ids in their metadata documents are the stored ids, also
\* when two meetings have the same date, the same slug and the same first
\* eight characters of the id.
C17_BulkExportOnePerMeeting ==
    (last.op = "exportAll" /\ DOMAIN pre.meetings # {})
    => /\ last.ok
       /\ Len(last.ret[1].folders) = Cardinality(DOMAIN meetings)
       /\ FolderIds(last.ret[1]) = DOMAIN meetings

\* The i-th folder of the imported archive can be read
Readable(i) == ~InvalidZip(last.arg[1].folders[i].zip)

\* The folders of the imported archive that can be read, in archive order
ReadableFolders ==
    SelectSeq([i \in 1 .. Len(last.arg[1].folders) |-> i], LAMBDA i : Readable(i))

\* C18: a bulk import returns normally whatever folders cannot be read; it
\* returns one id for each readable folder, in order, and none for the others.
\* The id is the one of the metadata document, or, under keep-both when that
\* id was taken, a fresh one; under skip a taken id is returned and its
\* record left alone.  Every returned id is stored when the call ends, with
\* the content of the last folder imported under it, and records under other
\* ids are as before.
C18_BulkImportSkipAndContinue ==
    (last.op = "importAll" /\ last.arg[1].folders # << >>)
    => LET folders == last.arg[1].folders
           ids     == last.ret[1]
           zipAt(k) == folders[ReadableFolders[k]].zip
           taken(k) == \/ ZipId(zipAt(k)) \in DOMAIN pre.meetings
                       \/ \E j \in 1 .. k - 1 : ids[j] = ZipId(zipAt(k))
       IN  /\ last.ok
           /\ Len(ids) = Len(ReadableFolders)
           /\ \A k \in 1 .. Len(ids) :
                 /\ ids[k] \in DOMAIN meetings
                 /\ IF last.policy = "keep-both" /\ taken(k)
                    THEN /\ ids[k] \notin DOMAIN pre.meetings
                         /\ ids[k] # ZipId(zipAt(k))
                         /\ \A j \in 1 .. k - 1 : ids[j] # ids[k]
                    ELSE ids[k] = ZipId(zipAt(k))
                 /\ (/\ ~(last.policy = "skip" /\ taken(k))
                     /\ \A j \in k + 1 .. Len(ids) : ids[j] # ids[k])
                    => HoldsContent(Get(ids[k])[1], zipAt(k))
                 /\ (/\ last.policy = "skip"
                     /\ ZipId(zipAt(k)) \in DOMAIN pre.meetings)
                    => meetings[ids[k]] = pre.meetings[ids[k]]
           /\ \A id \in DOMAIN pre.meetings :
                 /\ id \in DOMAIN meetings
                 /\ (\A k \in 1 .. Len(ids) : ids[k] # id) => meetings[id] = pre.meetings[id]
           /\ DOMAIN meetings = DOMAIN pre.meetings \cup {ids[k] : k \in 1 .. Len(ids)}

\* C18 witness: of three folders the middle one had no metadata document; the
\* first and the third were imported next to a meeting stored before
C18_Witness ==
    /\ last.op = "importAll"
    /\ last.ok
    /\ Len(last.arg[1].folders) = 3
    /\ Readable(1) /\ ~Readable(2) /\ Readable(3)
    /\ Len(last.ret[1]) = 2
    /\ DOMAIN pre.meetings # {}
    /\ Cardinality(DOMAIN meetings) = Cardinality(DOMAIN pre.meetings) + 2
    /\ HoldsContent(Get(last.ret[1][1])[1], last.arg[1].folders[1].zip)
    /\ HoldsContent(Get(last.ret[1][2])[1], last.arg[1].folders[3].zip)

\* C20: an export of one meeting, whether the id is stored or not, and a bulk
\* export leave every stored meeting record and every cost record as they
\* were.
C20_ExportReadOnly ==
    last.op \in {"export", "exportAll"}
    => /\ meetings = pre.meetings
       /\ costs = pre.costs

\* C20 witness: a bulk export returned an archive of a store holding an
\* archived and a live meeting, next to a cost record
C20_Witness ==
    /\ last.op = "exportAll"
    /\ last.ok
    /\ \E a, b \in DOMAIN meetings :
          /\ meetings[a].archived
          /\ ~meetings[b].archived /\ BlobSize(Get(b)[1].audioBlob) > 0
    /\ DOMAIN costs # {}
    /\ meetings = pre.meetings
    /\ costs = pre.costs

\* ------------------------------------------------------ asynchronous calls
\* Every operation of db.ts is an async function.  It runs to its next await,
\* and other calls run while it waits: for openDB inside initDB, for db.get,
\* for db.put or db.delete.  A request, once made, is carried out in its own
\* transaction in the order the requests were made, so a call has one step for
\* each await: the request of that await is made and carried out.
\* The position of a call: "idle" (not made), "opening" (inside initDB,
\* waiting for openDB), "ready" (initDB has returned the connection), "read"
\* (db.get has returned), "done".

\* The meeting the page is open on, whose handlers make the calls
meetingId == 1

\* What the handlers of the page ask for: updates of the title or of the
\* tags, archive, delete and save of the meeting, and a cost to log
AsyncInputs ==
    {[op |-> "update", id |-> meetingId, arg |-> <<[title |-> "Renamed"]>>],
     [op |-> "update", id |-> meetingId, arg |-> <<[tags |-> <<"x">>]>>],
     [op |-> "archive", id |-> meetingId, arg |-> <<ArchiveUpdates>>],
     [op |-> "delete", id |-> meetingId, arg |-> << >>],
     [op |-> "save", id |-> meetingId,
      arg |-> <<SampleMeeting(2, meetingId, FALSE, AudioB)>>]} \cup
    {[op |-> "logCost", id |-> 0, arg |-> <<c>>] : c \in LedgerInputs}

\* initDB up to its await: the connection if there is one, else openDB is
\* asked for a new one.  The call goes on with its arguments; logCost passes
\* the month of its new Date() on to updateCostTracking
initDB(c, input) ==
    LET args == IF input.op = "logCost"
                THEN <<input.arg[1], MonthKey(now)>> ELSE input.arg IN
    /\ calls[c].pc = "idle"
    /\ IF dbInstance # 0
       THEN /\ calls' = [calls EXCEPT ![c] =
                           [NoCall EXCEPT !.op = input.op, !.id = input.id, !.arg = args,
                                          !.pc = "ready", !.db = dbInstance]]
            /\ connections' = connections
       ELSE /\ calls' = [calls EXCEPT ![c] =
                           [NoCall EXCEPT !.op = input.op, !.id = input.id, !.arg = args,
                                          !.pc = "opening", !.db = connections + 1]]
            /\ connections' = connections + 1
    /\ UNCHANGED <<meetings, costs, now, last, pre, dbInstance, upgrades, recorder>>

\* dbInstance = await openDB(...): the open request succeeds, after the
\* upgrade callback if the database had no version yet; the connection is
\* assigned and returned
openDB(c) ==
    /\ calls[c].pc = "opening"
    /\ upgrades' = IF upgrades = 0 THEN 1 ELSE upgrades
    /\ dbInstance' = calls[c].db
    /\ calls' = [calls EXCEPT ![c].pc = "ready"]
    /\ UNCHANGED <<meetings, costs, now, last, pre, connections, recorder>>

\* The end of a call: its position, the time, and the record of the call
finish(c, err) ==
    /\ calls' = [calls EXCEPT ![c].pc = "done", ![c].err = err, ![c].at = now]
    /\ now' = now + 1
    /\ last' = Call(calls[c].op, calls[c].id, calls[c].arg, "", err, << >>)
    /\ pre' = Stores

\* const existing = await db.get(...) of updateMeeting and updateCostTracking;
\* updateMeeting throws if there is no record
dbGet(c) ==
    /\ calls[c].pc = "ready"
    /\ calls[c].op \in {"update", "archive", "logCost"}
    /\ IF calls[c].op = "logCost"
       THEN /\ calls' = [calls EXCEPT
                           ![c].pc = "read",
                           ![c].existing = IF calls[c].arg[2] \in DOMAIN costs
                                           THEN <<costs[calls[c].arg[2]]>> ELSE << >>]
            /\ UNCHANGED <<now, last, pre>>
       ELSE IF calls[c].id \in DOMAIN meetings
       THEN /\ calls' = [calls EXCEPT ![c].pc = "read",
                                      ![c].existing = <<meetings[calls[c].id]>>]
            /\ UNCHANGED <<now, last, pre>>
       ELSE finish(c, "NotFound")
    /\ UNCHANGED <<meetings, costs, dbInstance, connections, upgrades, recorder>>

\* the record read again when the put is made
existingReread(c) ==
    IF calls[c].id \in DOMAIN meetings THEN <<meetings[calls[c].id]>> ELSE calls[c].existing

\* The local variable existing of updateMeeting when the put is made
existing(c) == calls[c].existing

\* await db.put(...): of saveMeeting, and of updateMeeting and
\* updateCostTracking after the record was built from what db.get returned
dbPut(c) ==
    /\ \/ calls[c].pc = "ready" /\ calls[c].op = "save"
       \/ calls[c].pc = "read"
    /\ meetings' =
          IF calls[c].op = "save"
          THEN Put(meetings, calls[c].id, meetingToDB(calls[c].arg[1]))
          ELSE IF calls[c].op \in {"update", "archive"}
          THEN Put(meetings, calls[c].id, updated(existing(c)[1], calls[c].arg[1], now))
          ELSE meetings
    /\ costs' =
          IF calls[c].op = "logCost"
          THEN Put(costs, calls[c].arg[2],
                   costRecord(calls[c].existing, calls[c].arg[2],
                              IF calls[c].arg[1].type = "transcription"
                              THEN Dollars(calls[c].arg[1].cents) ELSE Zero,
                              IF calls[c].arg[1].type = "summarization"
                              THEN Dollars(calls[c].arg[1].cents) ELSE Zero,
                              now))
          ELSE costs
    /\ finish(c, "")
    /\ UNCHANGED <<dbInstance, connections, upgrades, recorder>>

\* await db.delete('meetings', id) of deleteMeeting
dbDelete(c) ==
    /\ calls[c].pc = "ready"
    /\ calls[c].op = "delete"
    /\ meetings' = Remove(meetings, calls[c].id)
    /\ costs' = costs
    /\ finish(c, "")
    /\ UNCHANGED <<dbInstance, connections, upgrades, recorder>>

\* The page as loaded: no connection and no call yet.  The database is new,
\* or it is the one an earlier visit left, with its schema and its records.
InitAsync ==
    /\ \/ meetings = EmptyStore /\ upgrades = 0
       \/ /\ meetings = Put(EmptyStore, meetingId,
                           meetingToDB(SampleMeeting(1, meetingId, FALSE, AudioA)))
          /\ upgrades = 1
    /\ costs = EmptyStore
    /\ now = 0
    /\ last = Call("init", 0, << >>, "", "", << >>)
    /\ pre = [meetings |-> meetings, costs |-> EmptyStore]
    /\ dbInstance = 0
    /\ connections = 0
    /\ calls = [c \in Callers |-> NoCall]
    /\ recorder = NewAudioRecorder

\* A new call is the next of the callers: the first one not yet used
DoCall ==
    \E c \in Callers, input \in AsyncInputs :
        /\ \A d \in 1 .. c - 1 : calls[d].pc # "idle"
        /\ initDB(c, input)
DoOpen == \E c \in Callers : openDB(c)
DoGet == \E c \in Callers : dbGet(c)
DoPut == \E c \in Callers : dbPut(c)
DoDbDelete == \E c \in Callers : dbDelete(c)

NextAsync == DoCall \/ DoOpen \/ DoGet \/ DoPut \/ DoDbDelete

SpecAsync == InitAsync /\ [][NextAsync]_vars

\* ----------------------------------------------------------- audio recorder
\* Date.now() at timer tick t, in milliseconds.  The recorder uses differences
\* of such values and tests them against 0; the value at tick 0 stands for
\* the time the page was opened, which is positive.
TickMs == 100
TimeOrigin == 1000
DateNow(t) == TimeOrigin + TickMs * t

\* AudioRecorder.start on a recorder whose stream is set: the chunks, the
\* start time and the paused duration are reset and a new MediaRecorder is
\* started
start ==
    /\ recorder.stream
    /\ recorder' = [recorder EXCEPT !.state = "recording",
                                    !.startTime = DateNow(now),
                                    !.pausedDuration = 0,
                                    !.recorded = 0]
    /\ last' = Call("start", 0, << >>, "", "", << >>)
    /\ UNCHANGED <<meetings, costs, now, pre, dbInstance, connections, upgrades, calls>>

\* AudioRecorder.pause: acts on a MediaRecorder that is recording
pause ==
    /\ recorder' = IF recorder.state = "recording"
                   THEN [recorder EXCEPT !.state = "paused", !.pausedAt = DateNow(now)]
                   ELSE recorder
    /\ last' = Call("pause", 0, << >>, "", "", << >>)
    /\ UNCHANGED <<meetings, costs, now, pre, dbInstance, connections, upgrades, calls>>

\* AudioRecorder.resume: acts on a MediaRecorder that is paused
resume ==
    /\ recorder' = IF recorder.state = "paused"
                   THEN [recorder EXCEPT
                            !.state = "recording",
                            !.pausedDuration = recorder.pausedDuration
                                               + DateNow(now) - recorder.pausedAt,
                            !.pausedAt = 0]
                   ELSE recorder
    /\ last' = Call("resume", 0, << >>, "", "", << >>)
    /\ UNCHANGED <<meetings, costs, now, pre, dbInstance, connections, upgrades, calls>>

\* AudioRecorder.stop: rejects without a MediaRecorder, and when
\* MediaRecorder.stop throws because the recorder is inactive; else the
\* MediaRecorder becomes inactive and the blob is returned
stop ==
    /\ recorder' = IF recorder.state \in {"recording", "paused"}
                   THEN [recorder EXCEPT !.state = "inactive"]
                   ELSE recorder
    /\ last' = Call("stop", 0, << >>, "",
                    IF recorder.state = "none" THEN "No active recording"
                    ELSE IF recorder.state = "inactive" THEN "InvalidStateError"
                    ELSE "", << >>)
    /\ UNCHANGED <<meetings, costs, now, pre, dbInstance, connections, upgrades, calls>>

\* AudioRecorder.getDuration at timer tick t, in milliseconds (the code
\* returns the same divided by 1000)
getDuration(t) ==
    IF recorder.startTime = 0 THEN 0
    ELSE IF recorder.pausedAt > 0
    THEN recorder.pausedAt - recorder.startTime - recorder.pausedDuration
    ELSE DateNow(t) - recorder.startTime - recorder.pausedDuration

\* Time passes: one more timer tick, spent recording if the MediaRecorder is
\* recording
tick ==
    /\ now < MaxTime
    /\ now' = now + 1
    /\ recorder' = IF recorder.state = "recording"
                   THEN [recorder EXCEPT !.recorded = recorder.recorded + TickMs]
                   ELSE recorder
    /\ UNCHANGED <<meetings, costs, last, pre, dbInstance, connections, upgrades, calls>>

\* An AudioRecorder after initialize(): the stream is set
InitRecorder ==
    /\ meetings = EmptyStore
    /\ costs = EmptyStore
    /\ now = 0
    /\ last = Call("init", 0, << >>, "", "", << >>)
    /\ pre = [meetings |-> EmptyStore, costs |-> EmptyStore]
    /\ dbInstance = 0
    /\ connections = 0
    /\ upgrades = 0
    /\ calls = [c \in Callers |-> NoCall]
    /\ recorder = [NewAudioRecorder EXCEPT !.stream = TRUE]

NextRecorder == start \/ pause \/ resume \/ stop \/ tick

SpecRecorder == InitRecorder /\ [][NextRecorder]_vars

\* ================================================== claims, third part
\* Every record is stored under its own id (the key path of the store)
KeyedById(store) == \A k \in DOMAIN store : store[k].id = k

\* The effect of save(m) on the collection apart from the content stored:
\* one record under m.id, one more record than before if the id was new and
\* as many if not, every other record as it was
UpsertShape(m) ==
    /\ Get(m.id) # << >>
    /\ KeyedById(meetings)
    /\ DOMAIN meetings = DOMAIN pre.meetings \cup {m.id}
    /\ Cardinality(DOMAIN meetings) =
          Cardinality(DOMAIN pre.meetings) + (IF m.id \in DOMAIN pre.meetings THEN 0 ELSE 1)
    /\ \A k \in DOMAIN pre.meetings \ {m.id} : meetings[k] = pre.meetings[k]
    /\ costs = pre.costs

\* C21 as stated: after save(m), get(m.id) returns m in every field, one
\* record has that id, the count grows by one exactly if the id was new, and
\* the other records are unchanged; no state holds two records of one id.
C21_SaveIsUpsert ==
    /\ KeyedById(meetings)
    /\ last.op = "save" =>
          /\ UpsertShape(last.arg[1])
          /\ Get(last.id)[1] = last.arg[1]

\* C21 amended: as above, where get(m.id) returns m in every field except
\* that the audio of an m flagged archived comes back empty.
C21_SaveIsUpsertPurging ==
    /\ KeyedById(meetings)
    /\ last.op = "save" =>
          /\ UpsertShape(last.arg[1])
          /\ DOMAIN Get(last.id)[1] = DOMAIN last.arg[1]
          /\ \A f \in DOMAIN last.arg[1] \ {"audioBlob"} :
                Get(last.id)[1][f] = last.arg[1][f]
          /\ Get(last.id)[1].audioBlob =
                (IF last.arg[1].archived THEN EmptyBlob ELSE last.arg[1].audioBlob)

\* C21 witness: a save has overwritten a stored meeting of other content next
\* to a second record
C21_Witness ==
    /\ last.op = "save"
    /\ last.id \in DOMAIN pre.meetings
    /\ PreGet(last.id)[1].title # last.arg[1].title
    /\ Cardinality(DOMAIN meetings) = 2
    /\ Cardinality(DOMAIN pre.meetings) = 2

\* C22: delete(id) completes without an error whether or not the id is
\* stored; afterwards get(id) is absent and every other meeting and every
\* cost record is as before; on an id that was not stored nothing changes, so
\* a second delete(id) leaves the state the first one left.
C22_DeleteIdempotent ==
    last.op = "delete" =>
        /\ last.ok
        /\ Get(last.id) = << >>
        /\ DOMAIN meetings = DOMAIN pre.meetings \ {last.id}
        /\ \A k \in DOMAIN meetings : meetings[k] = pre.meetings[k]
        /\ costs = pre.costs
        /\ last.id \notin DOMAIN pre.meetings => meetings = pre.meetings

\* C22 witness: delete was called on an id that is not stored (as a second
\* delete finds it) while another meeting was stored
C22_Witness ==
    /\ last.op = "delete"
    /\ last.ok
    /\ last.id \notin DOMAIN pre.meetings
    /\ DOMAIN pre.meetings # {}
    /\ meetings = pre.meetings

\* ------------------------------------------------------- summaries alone
\* A summary as the summarization service may return it: the fields of
\* Summary and one more, which validateSummaryResponse does not reject
ExtraSummary ==
    [f \in DOMAIN SampleSummary(1) \cup {"sentiment"} |->
        IF f = "sentiment" THEN "positive" ELSE SampleSummary(1)[f]]

Summaries == {SampleSummary(1), SampleSummary(2), ExtraSummary}

\* A stored meeting with the given summary, or none
SummaryMeeting(id, summary) ==
    meetingToDB([SampleMeeting(1, id, FALSE, AudioA) EXCEPT !.summary = summary])

\* The stores the summaries are regenerated in: each id absent, stored
\* without a summary, or stored with one of the summaries
SummaryStores ==
    {store \in UNION {[D -> {SummaryMeeting(id, x) :
                                id \in Ids, x \in {<< >>} \cup {<<y>> : y \in Summaries}}] :
                          D \in SUBSET Ids} :
        \A k \in DOMAIN store : store[k].id = k}

InitSummary ==
    /\ meetings \in SummaryStores
    /\ costs = EmptyStore
    /\ now = 0
    /\ last = Call("init", 0, << >>, "", "", << >>)
    /\ pre = [meetings |-> meetings, costs |-> EmptyStore]
    /\ Loaded

\* handleGenerateSummary: updateMeeting(meetingId, { summary })
DoRegenerate == \E id \in Ids, x \in Summaries : updateMeeting(id, [summary |-> <<x>>])

\* handleSaveTitle: updateMeeting(meetingId, { title })
DoRetitle == \E id \in Ids : updateMeeting(id, [title |-> "Renamed"])

NextSummary == DoRegenerate \/ DoRetitle

SpecSummary == InitSummary /\ [][NextSummary]_vars

\* C23: after update(id, {summary: S}) completes, get(id).summary is S, field
\* for field, and has no field that S lacks, whatever summary was stored
\* before; every stored meeting has at most one summary.
C23_SummaryReplaced ==
    /\ \A k \in DOMAIN meetings : Len(meetings[k].summary) <= 1
    /\ (last.op = "update" /\ last.ok /\ "summary" \in DOMAIN last.arg[1]) =>
          /\ Len(Get(last.id)[1].summary) = 1
          /\ DOMAIN Get(last.id)[1].summary[1] = DOMAIN last.arg[1].summary[1]
          /\ \A f \in DOMAIN last.arg[1].summary[1] :
                Get(last.id)[1].summary[1][f] = last.arg[1].summary[1][f]

\* C23 witness: a stored summary that had a field the new one lacks, and
\* differed from it in every other field, was replaced
C23_Witness ==
    /\ last.op = "update" /\ last.ok
    /\ "summary" \in DOMAIN last.arg[1]
    /\ PreGet(last.id)[1].summary # << >>
    /\ "sentiment" \in DOMAIN PreGet(last.id)[1].summary[1]
    /\ "sentiment" \notin DOMAIN last.arg[1].summary[1]
    /\ \A f \in DOMAIN last.arg[1].summary[1] :
          PreGet(last.id)[1].summary[1][f] # last.arg[1].summary[1][f]
    /\ Get(last.id)[1].summary = last.arg[1].summary

\* The stored meetings that the last call changed in some field
Changed == {k \in DOMAIN pre.meetings \cap DOMAIN meetings : meetings[k] # pre.meetings[k]}

\* The time at which the last call wrote: the clock has ticked once since
WriteTime == ClockDate(now - 1)

\* C24: every update, archive, save over a stored id and import with policy
\* replace that changes a field of a stored meeting leaves the record's
\* updatedAt at the time of the call, and not earlier than it was.
C24_UpdatedAtBumped ==
    last.op \in {"update", "archive", "save", "import"} =>
        \A k \in Changed :
            /\ Get(k)[1].updatedAt = WriteTime
            /\ ~Earlier(Get(k)[1].updatedAt, PreGet(k)[1].updatedAt)

\* -------------------------------------------------------------- statistics
\* allMeetings.reduce((sum, m) => sum + m.duration, 0)
RECURSIVE reduceDuration(_)
reduceDuration(allMeetings) ==
    IF allMeetings = << >> THEN 0
    ELSE reduceDuration(SubSeq(allMeetings, 1, Len(allMeetings) - 1))
         + allMeetings[Len(allMeetings)].duration

\* getDatabaseStats counting the meetings that are not archived
getDatabaseStatsCountingLive(store) ==
    [totalMeetings    |-> Len(getAllMeetings(store)),
     archivedMeetings |-> Len(SelectSeq(getAllMeetings(store), LAMBDA m : ~m.archived)),
     totalDuration    |-> reduceDuration(getAllMeetings(store))]

\* getDatabaseStats against a 'meetings' store (storageInfo, the browser's
\* storage estimate, left out)
getDatabaseStats(store) ==
    [totalMeetings    |-> Len(getAllMeetings(store)),
     archivedMeetings |-> Len(SelectSeq(getAllMeetings(store), LAMBDA m : m.archived)),
     totalDuration    |-> reduceDuration(getAllMeetings(store))]

\* The sum of the durations stored under the ids of a set
RECURSIVE DurationOver(_)
DurationOver(S) ==
    IF S = {} THEN 0
    ELSE LET k == CHOOSE x \in S : TRUE
         IN  meetings[k].duration + DurationOver(S \ {k})

\* C25: in every reachable state stats() returns the number of stored
\* meetings, the number of them that are archived (at most the former) and
\* the sum of their durations.
C25_StatsAggregate ==
    /\ getDatabaseStats(meetings).totalMeetings = Cardinality(DOMAIN meetings)
    /\ getDatabaseStats(meetings).archivedMeetings =
          Cardinality({k \in DOMAIN meetings : meetings[k].archived})
    /\ getDatabaseStats(meetings).archivedMeetings <= getDatabaseStats(meetings).totalMeetings
    /\ getDatabaseStats(meetings).totalDuration = DurationOver(DOMAIN meetings)

\* C25 witness: a live meeting of 600 seconds and an archived one of 300
\* seconds are stored, and stats() returns 2 meetings, 1 archived, 900 seconds
C25_Witness ==
    /\ \E a, b \in DOMAIN meetings :
          /\ meetings[a].duration = 600 /\ ~meetings[a].archived
          /\ meetings[b].duration = 300 /\ meetings[b].archived
          /\ DOMAIN meetings = {a, b}
    /\ getDatabaseStats(meetings) =
          [totalMeetings |-> 2, archivedMeetings |-> 1, totalDuration |-> 900]

\* The call that ended last: every end of a call takes one clock tick
EndedLast(c) == calls[c].pc = "done" /\ calls[c].at = now - 1

\* C26: an update that completes stores the record its own db.get returned
\* with its own fields and a new updatedAt over it, whatever was written to
\* the record between its read and its write: the last writer wins, and the
\* fields another call wrote in between are lost.
C26_LastWriterWins ==
    \A c \in Callers :
        (EndedLast(c) /\ calls[c].op \in {"update", "archive"} /\ calls[c].err = "") =>
            /\ calls[c].id \in DOMAIN meetings
            /\ \A f \in DOMAIN calls[c].arg[1] : meetings[calls[c].id][f] = calls[c].arg[1][f]
            /\ \A f \in DOMAIN meetings[calls[c].id] \ (DOMAIN calls[c].arg[1] \cup {"updatedAt"}) :
                  meetings[calls[c].id][f] = calls[c].existing[1][f]

\* C26 witness: update(id, {title}) and update(id, {tags}) overlapped, both
\* completed without an error, the title was stored when the second one wrote,
\* and the record now has the new tags and the old title
C26_Witness ==
    \E c, d \in Callers :
        /\ calls[c].pc = "done" /\ calls[c].err = "" /\ calls[c].op = "update"
        /\ EndedLast(d) /\ calls[d].err = "" /\ calls[d].op = "update"
        /\ calls[c].id = calls[d].id
        /\ calls[c].arg[1] = [title |-> "Renamed"]
        /\ calls[d].arg[1] = [tags |-> <<"x">>]
        /\ pre.meetings[calls[d].id].title = "Renamed"
        /\ meetings[calls[d].id].title # "Renamed"
        /\ meetings[calls[d].id].tags = <<"x">>

\* C27: the database is opened at most once and its schema created at most
\* once, and every call that has a connection has the one of dbInstance, also
\* when several calls make their first access before the first open has
\* completed.
C27_OpenedOnce ==
    /\ connections <= 1
    /\ upgrades <= 1
    /\ \A c \in Callers :
          calls[c].pc \in {"ready", "read", "done"} => calls[c].db = dbInstance

\* The ledger calls that have ended and those still under way
LedgerDone == {c \in Callers : calls[c].op = "logCost" /\ calls[c].pc = "done"}
LedgerUnderWay == {c \in Callers : calls[c].op = "logCost" /\ calls[c].pc \notin {"idle", "done"}}

\* The ledger calls of a set of callers, in the order in which they ended
RECURSIVE EndOrder(_)
EndOrder(S) ==
    IF S = {} THEN << >>
    ELSE LET c == CHOOSE x \in S : \A y \in S : calls[y].at <= calls[x].at
         IN  Append(EndOrder(S \ {c}), calls[c].arg[1])

\* C28: when N >= 1 logCost calls have ended and none is under way, in a
\* month that had no record, the month's record has meetingCount N and the
\* sums of the N amounts, also when the calls overlapped.
C28_EveryCallCounted ==
    (LedgerDone # {} /\ LedgerUnderWay = {}) =>
        /\ MonthKey(0) \in DOMAIN costs
        /\ costs[MonthKey(0)].meetingCount = Cardinality(LedgerDone)
        /\ costs[MonthKey(0)].transcriptionCost = FSum(EndOrder(LedgerDone), "transcription")
        /\ costs[MonthKey(0)].summarizationCost = FSum(EndOrder(LedgerDone), "summarization")

\* C29: an update or archive call that completes leaves no meeting stored
\* that was not stored when it wrote: a record that was deleted does not come
\* back through a call that read it before the delete.
C29_DeletedStaysDeleted ==
    (last.op \in {"update", "archive"} /\ last.ok) =>
        DOMAIN meetings \subseteq DOMAIN pre.meetings

\* C30: after a start, getDuration() is never negative; while the recorder is
\* recording or paused it is the time spent recording since the latest start,
\* so paused time is left out and the value moves on with every tick spent
\* recording; for every sequence of start, pause, resume and stop.
C30_DurationCountsRecording ==
    recorder.state # "none" =>
        /\ getDuration(now) >= 0
        /\ recorder.state \in {"recording", "paused"} => getDuration(now) = recorder.recorded

====
